---------------------------- MODULE Spec2Model ----------------------------
(***************************************************************************)
(* A model of the cluster routing engine of redis/cluster.go: node         *)
(* handles, the node registry (clusterNodes), cluster state snapshots      *)
(* (clusterState), the state holder (clusterStateHolder) and the           *)
(* dispatcher of ClusterClient.                                            *)
(*                                                                         *)
(* The module holds several specifications over one set of variables;      *)
(* each specification drives the part of the engine its properties are     *)
(* about and leaves the other variables at their initial values.           *)
(*                                                                         *)
(*   SpecGen      concurrent clusterNode.SetGeneration calls               *)
(*   SpecSlave    clusterState.slotSlaveNode on arbitrary slot lists       *)
(*   SpecReload   clusterStateHolder.LazyReload calls against a clock      *)
(*   SpecRegistry loads, GetOrCreate calls and GC timers interleaved       *)
(*   SpecCreate   GetOrCreate calls racing on absent addresses             *)
(*   SpecDispatch Process calls                                            *)
(*   SpecPipeline Pipeline and TxPipeline calls                            *)
(***************************************************************************)
EXTENDS Integers, Sequences, FiniteSets, TLC

VARIABLES
    now,        \* wall clock in seconds (time.Now().Unix())
    handles,    \* every clusterNode constructed so far; a node is its index
    nodes,      \* the registry, clusterNodes
    holder,     \* the clusterStateHolder
    sg,         \* SetGeneration calls in progress, per caller
    sl,         \* the slotSlaveNode call in progress
    rl,         \* LazyReload: the clock, the reload goroutines, the loads run
    goc,        \* GetOrCreate calls in progress, per goroutine
    flights,    \* nodeCreateGroup: the constructions in flight, by address
    ld,         \* the goroutine running clusterStateHolder.Load
    timers,     \* generations whose GC timer (time.AfterFunc) is pending
    opt,        \* the ClusterOptions of the client, after init
    dp          \* the dispatcher call in progress

vars == <<now, handles, nodes, holder, sg, sl, rl, goc, flights, ld, timers,
          opt, dp>>

\* What the steps of one part of the engine leave alone.
regIdle == <<goc, flights, ld, timers, opt, dp>>
regIdleButDp == <<goc, flights, ld, timers, opt>>
genFrame == <<now, nodes, holder, sl, rl, regIdle>>
slaveFrame == <<now, holder, sg, rl, regIdle>>
reloadFrame == <<now, handles, nodes, sg, sl, regIdle>>
regFrame == <<now, sg, sl, rl, opt, dp>>
dispFrame == <<now, sg, sl, rl, goc, flights, ld, timers>>

NoNode == 0

Max(a, b) == IF a >= b THEN a ELSE b

(***************************************************************************)
(* Bounds of the model.                                                    *)
(***************************************************************************)
MaxGen == 3          \* generations handed to SetGeneration: 0..MaxGen
NumGenCallers == 2   \* concurrent SetGeneration callers
MaxListLen == 3      \* longest slot node list drawn for slotSlaveNode
NumSlots == 2        \* slots of the model: 0..NumSlots-1
TicksPerSecond == 2  \* clock ticks in one second
MaxClock == 4        \* the clock stops here
MaxReloads == 3      \* reload goroutines LazyReload may spawn
MaxCalls == 4        \* LazyReload calls
NumHosts == 2        \* hosts 1..NumHosts of the addresses in use
NumCallers == 2      \* goroutines calling GetOrCreate beside the loader
RegCallers == 1      \* those of them that run beside loads and GC
MaxHandles == 3      \* node handles constructed in one run
MaxLoads == 3        \* Load calls in one run, NewClusterClient's included
MaxDescNodes == 2    \* nodes of one slot range in a CLUSTER SLOTS reply
MaxConfigured == 1   \* MaxRedirects is configured with -1..MaxConfigured
NumCmds == 1         \* commands of one pipeline
NumTxCmds == 2       \* commands of one pipeline of SpecTx
NumPorts == 2        \* ports 1..NumPorts of the addresses of SpecOrigin
MaxLoadingClock == 2 \* SpecLoading's clock stops after this many minutes
MaxBucketLen == 3    \* longest bucket of failedCmds
MaxPipeRedirects == 1 \* pipelines run on clients of MaxRedirects up to this
BestEffortRedirects == 2 \* MaxRedirects of the client of SpecBestEffort
MaxDispatchGen == 2  \* reloads beside the dispatcher stop at this generation

(***************************************************************************)
(* Errors.                                                                 *)
(***************************************************************************)
NoErr == "nil"
ErrClosed == "pool.ErrClosed"
ErrClusterNoNodes == "redis: cluster has no nodes"
ErrNoState == "redis: cluster has no state"
ErrTest == "cluster info failed"

(***************************************************************************)
(* clusterNode                                                             *)
(***************************************************************************)
Minute == 60

\* node.latency = math.MaxUint32, microseconds, here in whole milliseconds
UnmeasuredLatency == 4294967

\* newClusterNode: a fresh handle for addr; generation and loading are zero.
\* closedBy collects who has called Close on the node's client.
NewClusterNode(addr) ==
    [addr |-> addr, generation |-> 0, loading |-> 0, closedBy |-> {},
     latency |-> UnmeasuredLatency]

\* clusterNode.Close, called by who
Close(h, who) == [h EXCEPT !.closedBy = @ \cup {who}]

\* clusterNode.Loading, the value it returns at time t.
Loading(h, t) ==
    IF h.loading = 0 THEN FALSE
    ELSE t - h.loading < Minute

\* clusterNode.Loading, the handle it leaves: an expired mark is cleared.
LoadingEffect(h, t) ==
    IF h.loading # 0 /\ ~(t - h.loading < Minute)
    THEN [h EXCEPT !.loading = 0]
    ELSE h

\* clusterNode.MarkAsLoading
MarkAsLoading(h, t) == [h EXCEPT !.loading = t]

(***************************************************************************)
(* clusterNode.Loading and MarkAsLoading on node 1, one atomic operation   *)
(* or one reading of the clock per step; now is time.Now().Unix().         *)
(* dp.last is the time of the last MarkAsLoading; a Loading call keeps     *)
(* the mark that was the last one when it began.                           *)
(***************************************************************************)
LoadingIdle == [pc |-> "idle", loading |-> 0, last |-> 0, ret |-> FALSE]

\* MarkAsLoading: the atomic store of the time
MarkCall ==
    /\ handles' = [handles EXCEPT ![1] = MarkAsLoading(@, now)]
    /\ dp' = [dp EXCEPT !.last = now]
    /\ UNCHANGED <<now, nodes, holder, sg, sl, rl, regIdleButDp>>

\* Loading: the atomic load and the test for zero
LoadingLoad(c) ==
    /\ sg[c].pc = "idle"
    /\ sg' = [sg EXCEPT ![c] =
                [pc |-> IF handles[1].loading = 0 THEN "ret" ELSE "now",
                 loading |-> handles[1].loading, last |-> dp.last,
                 ret |-> FALSE]]
    /\ UNCHANGED <<now, handles, nodes, holder, sl, rl, regIdle>>

\* Loading: time.Now().Unix()-int64(loading) < minute
LoadingNow(c) ==
    /\ sg[c].pc = "now"
    /\ sg' = [sg EXCEPT ![c] =
                IF Loading([loading |-> sg[c].loading], now)
                THEN [@ EXCEPT !.pc = "ret", !.ret = TRUE]
                ELSE [@ EXCEPT !.pc = "store"]]
    /\ UNCHANGED <<now, handles, nodes, holder, sl, rl, regIdle>>

\* Loading: the atomic store of zero
LoadingStore(c) ==
    /\ sg[c].pc = "store"
    /\ handles' = [handles EXCEPT ![1].loading = 0]
    /\ sg' = [sg EXCEPT ![c].pc = "ret"]
    /\ UNCHANGED <<now, nodes, holder, sl, rl, regIdle>>

\* Loading has returned sg[c].ret.
LoadingReturn(c) ==
    /\ sg[c].pc = "ret"
    /\ sg' = [sg EXCEPT ![c] = LoadingIdle]
    /\ UNCHANGED <<now, handles, nodes, holder, sl, rl, regIdle>>

\* The clock goes on by d seconds.
ClockAdvance(d) ==
    /\ now + d <= (MaxLoadingClock + 1) * Minute
    /\ now' = now + d
    /\ UNCHANGED <<handles, nodes, holder, sg, sl, rl, regIdle>>

(***************************************************************************)
(* clusterNode.SetGeneration, one atomic operation per step.  Callers act  *)
(* on node 1.                                                              *)
(***************************************************************************)
GenCallers == 1..NumGenCallers

SetGenIdle == [pc |-> "idle", gen |-> 0, v |-> 0]

\* A caller enters SetGeneration(g).
SetGenCall(c, g) ==
    /\ sg[c].pc = "idle"
    /\ sg' = [sg EXCEPT ![c] = [pc |-> "load", gen |-> g, v |-> 0]]
    /\ UNCHANGED <<handles, genFrame>>

\* v := atomic.LoadUint32(&n.generation); gen < v ends the loop.
SetGenLoad(c) ==
    /\ sg[c].pc = "load"
    /\ LET v == handles[1].generation IN
         sg' = [sg EXCEPT ![c].v = v,
                          ![c].pc = IF sg[c].gen < v THEN "done" ELSE "cas"]
    /\ UNCHANGED <<handles, genFrame>>

\* A plain store in place of the compare-and-swap.
SetGenCASPlainStore(c) ==
    /\ sg[c].pc = "cas"
    /\ handles' = [handles EXCEPT ![1].generation = sg[c].gen]
    /\ sg' = [sg EXCEPT ![c].pc = "done"]
    /\ UNCHANGED genFrame

\* atomic.CompareAndSwapUint32(&n.generation, v, gen): success ends the
\* loop, failure goes round it again.
SetGenCAS(c) ==
    /\ sg[c].pc = "cas"
    /\ IF handles[1].generation = sg[c].v
       THEN /\ handles' = [handles EXCEPT ![1].generation = sg[c].gen]
            /\ sg' = [sg EXCEPT ![c].pc = "done"]
       ELSE /\ sg' = [sg EXCEPT ![c].pc = "load"]
            /\ UNCHANGED handles
    /\ UNCHANGED genFrame

\* SetGeneration returns.
SetGenReturn(c) ==
    /\ sg[c].pc = "done"
    /\ sg' = [sg EXCEPT ![c] = SetGenIdle]
    /\ UNCHANGED <<handles, genFrame>>

\* The uncontended call: what SetGeneration(gen) leaves when no other
\* writer of the node's generation runs beside it.
SetGeneration(h, gen) ==
    IF gen < h.generation THEN h ELSE [h EXCEPT !.generation = gen]

(***************************************************************************)
(* clusterNodes, the registry.  allNodes is the Go map: a function whose   *)
(* domain is the set of addresses present.  An address is <<host, port>>;  *)
(* host 0 stands for a loopback IP.                                        *)
(***************************************************************************)
Lookup(m, addr) == IF addr \in DOMAIN m THEN m[addr] ELSE NoNode

Delete(m, addr) == [a \in DOMAIN m \ {addr} |-> m[a]]

SeqContains(ss, e) == \E i \in 1..Len(ss) : ss[i] = e

\* appendIfNotExists, for one element
AppendIfNotExists(ss, e) == IF SeqContains(ss, e) THEN ss ELSE Append(ss, e)

\* remove, for one element: the first occurrence of e is cut out
Remove(ss, e) ==
    IF ~SeqContains(ss, e) THEN ss
    ELSE LET i == CHOOSE k \in 1..Len(ss) :
                    ss[k] = e /\ \A j \in 1..(k - 1) : ss[j] # e
         IN  SubSeq(ss, 1, i - 1) \o SubSeq(ss, i + 1, Len(ss))

\* newClusterNodes
NewClusterNodes(seeds) ==
    [allAddrs |-> seeds, allNodes |-> <<>>, clusterAddrs |-> <<>>,
     closed |-> FALSE, generation |-> 0]

\* clusterNodes.Addrs: the error and the addresses it returns
Addrs(reg) ==
    LET addrs == IF Len(reg.clusterAddrs) > 0 THEN reg.clusterAddrs
                 ELSE reg.allAddrs
    IN  IF reg.closed THEN [err |-> ErrClosed, addrs |-> <<>>]
        ELSE IF Len(addrs) = 0 THEN [err |-> ErrClusterNoNodes, addrs |-> <<>>]
        ELSE [err |-> NoErr, addrs |-> addrs]

\* clusterNodes.GetOrCreate, the read-locked look-up it starts with: the
\* error or the node it returns at once; NoErr with NoNode goes on to the
\* construction.
GetOrCreateFast(reg, addr) ==
    IF reg.closed THEN [err |-> ErrClosed, node |-> NoNode]
    ELSE [err |-> NoErr, node |-> Lookup(reg.allNodes, addr)]

\* The write-locked part without the look-up of a concurrent winner: the
\* delivered handle is stored whatever the table holds.
GetOrCreateInsertOverwrite(reg, hs, addr, v, err) ==
    IF reg.closed
    THEN [nodes |-> reg, handles |-> hs, node |-> NoNode, err |-> ErrClosed]
    ELSE [nodes |-> [reg EXCEPT
                       !.allAddrs = AppendIfNotExists(reg.allAddrs, addr),
                       !.clusterAddrs = IF err = NoErr
                                        THEN Append(reg.clusterAddrs, addr)
                                        ELSE reg.clusterAddrs,
                       !.allNodes = (addr :> v) @@ reg.allNodes],
          handles |-> hs, node |-> v, err |-> err]

\* The write-locked part without the look at closed.
GetOrCreateInsertWhenClosed(reg, hs, addr, v, err) ==
    IF addr \in DOMAIN reg.allNodes
    THEN [nodes |-> reg,
          handles |-> [hs EXCEPT ![v] = Close(hs[v], "GetOrCreate")],
          node |-> reg.allNodes[addr], err |-> err]
    ELSE [nodes |-> [reg EXCEPT
                       !.allAddrs = AppendIfNotExists(reg.allAddrs, addr),
                       !.clusterAddrs = IF err = NoErr
                                        THEN Append(reg.clusterAddrs, addr)
                                        ELSE reg.clusterAddrs,
                       !.allNodes = (addr :> v) @@ reg.allNodes],
          handles |-> hs, node |-> v, err |-> err]

\* clusterNodes.GetOrCreate, the write-locked part after the flight has
\* delivered the handle v and the error err of its Test.
GetOrCreateInsert(reg, hs, addr, v, err) ==
    IF reg.closed
    THEN [nodes |-> reg, handles |-> hs, node |-> NoNode, err |-> ErrClosed]
    ELSE IF addr \in DOMAIN reg.allNodes
    THEN [nodes |-> reg,
          handles |-> [hs EXCEPT ![v] = Close(hs[v], "GetOrCreate")],
          node |-> reg.allNodes[addr], err |-> err]
    ELSE [nodes |-> [reg EXCEPT
                       !.allAddrs = AppendIfNotExists(reg.allAddrs, addr),
                       !.clusterAddrs = IF err = NoErr
                                        THEN Append(reg.clusterAddrs, addr)
                                        ELSE reg.clusterAddrs,
                       !.allNodes = (addr :> v) @@ reg.allNodes],
          handles |-> hs, node |-> v, err |-> err]

\* clusterNodes.GetOrCreate run without another goroutine in between: the
\* set of its outcomes, one per result of the new node's Test.
GetOrCreate(reg, hs, addr) ==
    LET fast == GetOrCreateFast(reg, addr) IN
    IF fast.err # NoErr \/ fast.node # NoNode
    THEN {[nodes |-> reg, handles |-> hs, node |-> fast.node, err |-> fast.err]}
    ELSE {GetOrCreateInsert(reg, Append(hs, NewClusterNode(addr)), addr,
                            Len(hs) + 1, err) : err \in {NoErr, ErrTest}}

\* clusterNodes.Close: the registry and the handles it leaves, and whether
\* it returns the first error of the nodes' Close, which is firstErr, or
\* nil.
ClusterNodesClose(reg, hs, firstErr) ==
    IF reg.closed THEN [nodes |-> reg, handles |-> hs, err |-> NoErr]
    ELSE [nodes |-> [reg EXCEPT !.closed = TRUE, !.allNodes = <<>>,
                                !.clusterAddrs = <<>>],
          handles |-> [i \in 1..Len(hs) |->
                         IF \E a \in DOMAIN reg.allNodes : reg.allNodes[a] = i
                         THEN Close(hs[i], "Close") ELSE hs[i]],
          err |-> IF DOMAIN reg.allNodes = {} THEN NoErr ELSE firstErr]

\* clusterNodes.All: the error and the nodes it returns
All(reg) ==
    IF reg.closed THEN [err |-> ErrClosed, nodes |-> {}]
    ELSE [err |-> NoErr,
          nodes |-> {reg.allNodes[a] : a \in DOMAIN reg.allNodes}]

\* clusterNodes.Random: Addrs, then GetOrCreate of a randomly drawn address
Random(reg, hs) ==
    LET a == Addrs(reg) IN
    IF a.err # NoErr
    THEN {[nodes |-> reg, handles |-> hs, node |-> NoNode, err |-> a.err]}
    ELSE UNION {GetOrCreate(reg, hs, a.addrs[n]) : n \in 1..Len(a.addrs)}

(***************************************************************************)
(* clusterState, the snapshot: slots maps each slot to its node list,      *)
(* primary first.                                                          *)
(***************************************************************************)
Slots == 0..(NumSlots - 1)

NoState == [generation |-> 0, slots |-> <<>>, masters |-> <<>>, slaves |-> <<>>]

\* clusterState.slotNodes
SlotNodes(state, slot) ==
    IF slot >= 0 /\ slot < NumSlots /\ slot \in DOMAIN state.slots
    THEN state.slots[slot]
    ELSE <<>>

(***************************************************************************)
(* clusterState.slotSlaveNode.  The sampling loop of the default case      *)
(* takes one step per iteration.                                           *)
(***************************************************************************)
Probes == 10

SlaveIdle ==
    [pc |-> "idle", nodes |-> <<>>, i |-> 0, slave |-> NoNode, err |-> NoErr]

\* The call up to the switch on len(nodes); the cases 0, 1 and 2 return.
SlaveCall(slot) ==
    /\ sl.pc = "idle"
    /\ holder.state # NoState
    /\ LET ns == SlotNodes(holder.state, slot) IN
       CASE Len(ns) = 0 ->
              \E r \in Random(nodes, handles) :
                 /\ nodes' = r.nodes
                 /\ handles' = r.handles
                 /\ sl' = [pc |-> "ret", nodes |-> ns, i |-> 0,
                           slave |-> r.node, err |-> r.err]
         [] Len(ns) = 1 ->
              /\ sl' = [pc |-> "ret", nodes |-> ns, i |-> 0,
                        slave |-> ns[1], err |-> NoErr]
              /\ UNCHANGED <<nodes, handles>>
         [] Len(ns) = 2 ->
              /\ sl' = [pc |-> "ret", nodes |-> ns, i |-> 0,
                        slave |-> IF ~Loading(handles[ns[2]], now)
                                  THEN ns[2] ELSE ns[1],
                        err |-> NoErr]
              /\ handles' = [handles EXCEPT
                               ![ns[2]] = LoadingEffect(handles[ns[2]], now)]
              /\ UNCHANGED nodes
         [] OTHER ->
              /\ sl' = [pc |-> "loop", nodes |-> ns, i |-> 0,
                        slave |-> NoNode, err |-> NoErr]
              /\ UNCHANGED <<nodes, handles>>
    /\ UNCHANGED slaveFrame

\* A draw over the whole list, rand.Intn(len(nodes)), primary included.
SlaveDrawsWholeList(ns) == 1..Len(ns)

\* The indexes rand.Intn(len(nodes)-1) + 1 draws from, counted from 1.
SlaveDraws(ns) == 2..Len(ns)

\* One iteration of the loop: draw, test Loading, break or go on; after
\* the last iteration the last draw is returned.
SlaveSample ==
    /\ sl.pc = "loop"
    /\ \E n \in SlaveDraws(sl.nodes) :
         LET slave == sl.nodes[n] IN
         /\ handles' = [handles EXCEPT
                          ![slave] = LoadingEffect(handles[slave], now)]
         /\ sl' = [sl EXCEPT
                     !.slave = slave,
                     !.i = sl.i + 1,
                     !.pc = IF ~Loading(handles[slave], now) \/ sl.i + 1 = Probes
                            THEN "ret" ELSE "loop"]
    /\ UNCHANGED <<nodes, slaveFrame>>

\* The caller takes the result.
SlaveReturn ==
    /\ sl.pc = "ret"
    /\ sl' = SlaveIdle
    /\ UNCHANGED <<nodes, handles, slaveFrame>>

(***************************************************************************)
(* clusterStateHolder                                                      *)
(***************************************************************************)
ErrLoad == "load failed"

\* newClusterStateHolder
NoHolder == [state |-> NoState, lastErr |-> NoErr, reloading |-> 0]

\* clusterStateHolder.Load, after c.load() has returned state and err
HolderLoad(h, state, err) ==
    IF err # NoErr
    THEN [h EXCEPT !.lastErr = err]
    ELSE [h EXCEPT !.state = state]

\* Get that looks at the last error before the state.
HolderGetErrorFirst(h) ==
    IF h.lastErr # NoErr THEN [state |-> NoState, err |-> h.lastErr]
    ELSE IF h.state # NoState THEN [state |-> h.state, err |-> NoErr]
    ELSE [state |-> NoState, err |-> ErrNoState]

\* clusterStateHolder.Get
HolderGet(h) ==
    IF h.state # NoState THEN [state |-> h.state, err |-> NoErr]
    ELSE IF h.lastErr # NoErr THEN [state |-> NoState, err |-> h.lastErr]
    ELSE [state |-> NoState, err |-> ErrNoState]

(***************************************************************************)
(* clusterStateHolder.LazyReload against a clock.  rl.clock counts ticks,  *)
(* rl.tasks holds the goroutines spawned, rl.loads the c.Load() calls      *)
(* they made with their start and end times; the load function itself is   *)
(* the holder's parameter and here just succeeds or fails.                 *)
(***************************************************************************)
Second == TicksPerSecond

ReloadIdle == [clock |-> 0, tasks |-> <<>>, loads |-> <<>>, calls |-> 0,
               coalesced |-> 0]

\* The snapshot the k-th load of this holder yields.
LoadedState(k) == [NoState EXCEPT !.generation = k]

\* LazyReload whose gate always opens: no compare-and-swap on reloading.
LazyReloadGateOpen(h) == TRUE

\* atomic.CompareAndSwapUint32(&c.reloading, 0, 1)
LazyReloadGate(h) == h.reloading = 0

\* LazyReload: the compare-and-swap and, when it succeeds, the go statement.
LazyReload ==
    /\ rl.calls < MaxCalls
    /\ IF LazyReloadGate(holder) /\ Len(rl.tasks) < MaxReloads
       THEN /\ holder' = [holder EXCEPT !.reloading = 1]
            /\ rl' = [rl EXCEPT !.calls = rl.calls + 1,
                                !.tasks = Append(rl.tasks,
                                                 [pc |-> "start", wake |-> 0])]
       ELSE /\ LazyReloadGate(holder) = FALSE
            /\ rl' = [rl EXCEPT !.calls = rl.calls + 1,
                                !.coalesced = rl.coalesced + 1]
            /\ UNCHANGED holder
    /\ UNCHANGED reloadFrame

\* The goroutine calls c.Load().
ReloadLoadStart(t) ==
    /\ rl.tasks[t].pc = "start"
    /\ rl' = [rl EXCEPT !.tasks[t].pc = "load",
                        !.loads = Append(rl.loads,
                                         [start |-> rl.clock, end |-> -1,
                                          ok |-> FALSE, task |-> t])]
    /\ UNCHANGED <<holder, reloadFrame>>

\* After a load without error the goroutine returns at once.
ReloadAfterLoadNoSleep(err, clock) == [pc |-> "exit", wake |-> 0]

\* if err == nil { time.Sleep(time.Second) }
ReloadAfterLoad(err, clock) ==
    IF err = NoErr THEN [pc |-> "sleep", wake |-> clock + Second]
    ELSE [pc |-> "exit", wake |-> 0]

\* c.Load() returns, with a snapshot or with an error.
ReloadLoadEnd(t, err) ==
    /\ rl.tasks[t].pc = "load"
    /\ LET k == CHOOSE i \in 1..Len(rl.loads) :
                   rl.loads[i].task = t /\ rl.loads[i].end = -1
       IN  /\ holder' = HolderLoad(holder, LoadedState(k), err)
           /\ rl' = [rl EXCEPT !.tasks[t] = ReloadAfterLoad(err, rl.clock),
                               !.loads[k].end = rl.clock,
                               !.loads[k].ok = (err = NoErr)]
    /\ UNCHANGED reloadFrame

\* time.Sleep returns, no earlier than a second after it was called.
ReloadWake(t) ==
    /\ rl.tasks[t].pc = "sleep"
    /\ rl.clock >= rl.tasks[t].wake
    /\ rl' = [rl EXCEPT !.tasks[t].pc = "exit"]
    /\ UNCHANGED <<holder, reloadFrame>>

\* defer atomic.StoreUint32(&c.reloading, 0)
ReloadExit(t) ==
    /\ rl.tasks[t].pc = "exit"
    /\ holder' = [holder EXCEPT !.reloading = 0]
    /\ rl' = [rl EXCEPT !.tasks[t].pc = "gone"]
    /\ UNCHANGED reloadFrame

\* Time passes.
Tick ==
    /\ rl.clock < MaxClock
    /\ rl' = [rl EXCEPT !.clock = rl.clock + 1]
    /\ UNCHANGED <<holder, reloadFrame>>

(***************************************************************************)
(* clusterNodes.GC                                                         *)
(***************************************************************************)
\* GC that also collects the nodes of the generation itself.
GCCollectedUpTo(reg, hs, generation) ==
    {a \in DOMAIN reg.allNodes : hs[reg.allNodes[a]].generation <= generation}

\* The addresses GC(generation) collects.
GCCollected(reg, hs, generation) ==
    {a \in DOMAIN reg.allNodes : ~(hs[reg.allNodes[a]].generation >= generation)}

RECURSIVE RemoveAll(_, _)
\* remove applied once for each address of the set es
RemoveAll(ss, es) ==
    IF es = {} THEN ss
    ELSE LET e == CHOOSE x \in es : TRUE
         IN  RemoveAll(Remove(ss, e), es \ {e})

\* GC that deletes the nodes but leaves their addresses in clusterAddrs.
GCKeepsClusterAddrs(reg, hs, generation) ==
    LET gone == GCCollected(reg, hs, generation) IN
    [nodes |-> [reg EXCEPT
                  !.allNodes = [a \in DOMAIN reg.allNodes \ gone
                                  |-> reg.allNodes[a]]],
     handles |-> [i \in 1..Len(hs) |->
                    IF \E a \in gone : reg.allNodes[a] = i
                    THEN Close(hs[i], "GC") ELSE hs[i]]]

\* clusterNodes.GC: the registry and the handles it leaves
GC(reg, hs, generation) ==
    LET gone == GCCollected(reg, hs, generation) IN
    [nodes |-> [reg EXCEPT
                  !.clusterAddrs = RemoveAll(reg.clusterAddrs, gone),
                  !.allNodes = [a \in DOMAIN reg.allNodes \ gone
                                  |-> reg.allNodes[a]]],
     handles |-> [i \in 1..Len(hs) |->
                    IF \E a \in gone : reg.allNodes[a] = i
                    THEN Close(hs[i], "GC") ELSE hs[i]]]

(***************************************************************************)
(* newClusterState and loadState                                           *)
(***************************************************************************)
\* An address string is <<host, port>>.  Host 0 is a loopback IP, a host
\* above 0 another IP, HostName a host that is no IP; port NoPort makes
\* the string one that net.SplitHostPort fails on.
HostName == -1
NoPort == 0

\* net.SplitHostPort
SplitHostPort(addr) ==
    IF addr[2] = NoPort THEN [err |-> TRUE, host |-> HostName, port |-> NoPort]
    ELSE [err |-> FALSE, host |-> addr[1], port |-> addr[2]]

\* net.ParseIP(host) # nil
ParseIP(host) == host >= 0

\* net.IP.IsLoopback
IsLoopback(ip) == ip = 0

\* isLoopbackAddr
IsLoopbackAddr(addr) ==
    LET a == SplitHostPort(addr) IN
    IF a.err THEN FALSE
    ELSE IF ~ParseIP(a.host) THEN FALSE
    ELSE IsLoopback(a.host)

\* useOriginAddr that does not compare the ports.
UseOriginAddrAnyPort(originAddr, nodeAddr) ==
    /\ ~SplitHostPort(nodeAddr).err
    /\ ParseIP(SplitHostPort(nodeAddr).host)
    /\ IsLoopback(SplitHostPort(nodeAddr).host)
    /\ ~SplitHostPort(originAddr).err

\* useOriginAddr
UseOriginAddr(originAddr, nodeAddr) ==
    LET n == SplitHostPort(nodeAddr)
        o == SplitHostPort(originAddr)
    IN  IF n.err THEN FALSE
        ELSE IF ~ParseIP(n.host) THEN FALSE
        ELSE IF ~IsLoopback(n.host) THEN FALSE
        ELSE IF o.err THEN FALSE
        ELSE n.port = o.port

\* The address newClusterState asks the registry for.
SlotNodeAddr(origin, addr) ==
    IF ~IsLoopbackAddr(origin) /\ UseOriginAddr(origin, addr)
    THEN origin ELSE addr

\* clusterState as newClusterState first builds it
EmptyState(gen) ==
    [generation |-> gen, slots |-> [s \in Slots |-> <<>>],
     masters |-> <<>>, slaves |-> <<>>]

\* NextGeneration that hands out the counter without advancing it.
NextGenerationStuck(reg) == reg

\* clusterNodes.NextGeneration: the registry it leaves; its generation field
\* is the value returned
NextGeneration(reg) == [reg EXCEPT !.generation = reg.generation + 1]

(***************************************************************************)
(* The goroutines of the registry.  Goroutine 0 runs Load (NewCluster-     *)
(* Client's, then one LazyReload goroutine at a time: LazyReload's flag    *)
(* admits one); goroutines 1..NumCallers call GetOrCreate as the           *)
(* dispatcher does for a redirect.  A step holds one access to shared      *)
(* state.  nodeCreateGroup is a single-flight group: Do(addr, fn) runs fn  *)
(* unless a call for addr is in flight, which it then waits for, and       *)
(* every caller of one flight gets that flight's result.                   *)
(***************************************************************************)
NoAddr == <<>>

Callers == 1..NumCallers
Procs == 0..NumCallers

GocIdle == [pc |-> "idle", addr |-> NoAddr, v |-> NoNode, err |-> NoErr,
            node |-> NoNode]

\* The call about to take the read lock.
GocStart(addr) == [GocIdle EXCEPT !.pc = "fast", !.addr = addr]

\* GetOrCreate's read-locked look-up: return, or go on to Do.
GocFastResult(reg, addr) ==
    LET f == GetOrCreateFast(reg, addr) IN
    IF f.err # NoErr \/ f.node # NoNode
    THEN [GocIdle EXCEPT !.pc = "ret", !.addr = addr, !.err = f.err,
                         !.node = f.node]
    ELSE [GocIdle EXCEPT !.pc = "do", !.addr = addr]

\* A goroutine of the dispatcher calls GetOrCreate(addr).
CallerGetOrCreate(p, addr) ==
    /\ ld.constructed
    /\ goc[p].pc = "idle"
    /\ goc' = [goc EXCEPT ![p] = GocFastResult(nodes, addr)]
    /\ UNCHANGED <<handles, nodes, holder, flights, ld, timers, regFrame>>

\* The loader's GetOrCreate takes the read lock.
GocFast(p) ==
    /\ goc[p].pc = "fast"
    /\ goc' = [goc EXCEPT ![p] = GocFastResult(nodes, goc[p].addr)]
    /\ UNCHANGED <<handles, nodes, holder, flights, ld, timers, regFrame>>

\* nodeCreateGroup.Do: join the flight for the address, or start one,
\* which constructs the node and sends its Test.
GocDo(p) ==
    /\ goc[p].pc = "do"
    /\ IF goc[p].addr \in DOMAIN flights
       THEN UNCHANGED <<handles, flights>>
       ELSE /\ Len(handles) < MaxHandles
            /\ handles' = Append(handles, NewClusterNode(goc[p].addr))
            /\ flights' = (goc[p].addr :> (Len(handles) + 1)) @@ flights
    /\ goc' = [goc EXCEPT ![p].pc = "wait"]
    /\ UNCHANGED <<nodes, holder, ld, timers, regFrame>>

\* The Test of the flight for addr returns err: the flight ends and all
\* its callers get the node and err.
FlightDone(addr, err) ==
    /\ addr \in DOMAIN flights
    /\ goc' = [p \in Procs |->
                 IF goc[p].pc = "wait" /\ goc[p].addr = addr
                 THEN [goc[p] EXCEPT !.pc = "lock", !.v = flights[addr],
                                     !.err = err]
                 ELSE goc[p]]
    /\ flights' = Delete(flights, addr)
    /\ UNCHANGED <<handles, nodes, holder, ld, timers, regFrame>>

\* GetOrCreate's write-locked part.
GocLock(p) ==
    /\ goc[p].pc = "lock"
    /\ LET r == GetOrCreateInsert(nodes, handles, goc[p].addr, goc[p].v,
                                  goc[p].err)
       IN  /\ nodes' = r.nodes
           /\ handles' = r.handles
           /\ goc' = [goc EXCEPT ![p].pc = "ret", ![p].node = r.node,
                                 ![p].err = r.err]
    /\ UNCHANGED <<holder, flights, ld, timers, regFrame>>

\* The dispatcher's goroutine has its node or its error.
CallerReturn(p) ==
    /\ p \in Callers
    /\ goc[p].pc = "ret"
    /\ goc' = [goc EXCEPT ![p] = GocIdle]
    /\ UNCHANGED <<handles, nodes, holder, flights, ld, timers, regFrame>>

\* A goroutine calls Random: Addrs, and GetOrCreate of the address drawn.
CallerRandom(p) ==
    /\ ld.constructed
    /\ goc[p].pc = "idle"
    /\ LET a == Addrs(nodes) IN
       IF a.err # NoErr
       THEN goc' = [goc EXCEPT ![p] = [GocIdle EXCEPT !.pc = "ret",
                                                      !.err = a.err]]
       ELSE \E n \in 1..Len(a.addrs) :
               goc' = [goc EXCEPT ![p] = GocStart(a.addrs[n])]
    /\ UNCHANGED <<handles, nodes, holder, flights, ld, timers, regFrame>>

\* A goroutine calls All.
CallerAll ==
    /\ dp.kind = "idle"
    /\ dp' = [kind |-> "all", pc |-> "done", err |-> All(nodes).err,
              nodes |-> All(nodes).nodes]
    /\ UNCHANGED <<now, handles, nodes, holder, sg, sl, rl, goc, flights,
                   ld, timers, opt>>

ErrNodeClose == "close failed"

\* A goroutine calls the registry's Close.
CloseCall(firstErr) ==
    /\ dp.kind = "idle"
    /\ LET r == ClusterNodesClose(nodes, handles, firstErr) IN
       /\ nodes' = r.nodes /\ handles' = r.handles
       /\ dp' = [kind |-> "close", pc |-> "done", err |-> r.err]
    /\ UNCHANGED <<now, holder, sg, sl, rl, goc, flights, ld, timers, opt>>

\* A GC timer fires.
GCFire(g) ==
    /\ g \in timers
    /\ LET r == GC(nodes, handles, g)
       IN  /\ nodes' = r.nodes
           /\ handles' = r.handles
    /\ timers' = timers \ {g}
    /\ UNCHANGED <<holder, goc, flights, ld, regFrame>>

(***************************************************************************)
(* The loader: clusterStateHolder.Load running loadState and               *)
(* newClusterState.                                                        *)
(***************************************************************************)
LoaderIdle ==
    [pc |-> "idle", kind |-> "initial", addrs |-> <<>>, ai |-> 0,
     firstErr |-> NoErr, origin |-> NoAddr, desc |-> <<>>, si |-> 0,
     ni |-> 0, cur |-> <<>>, st |-> NoState, err |-> NoErr,
     loads |-> 0, stored |-> 0, constructed |-> FALSE, lastFail |-> NoErr]

ErrSlots == "cluster slots failed"

\* The CLUSTER SLOTS replies of the model: no range, or one range over all
\* slots with one to MaxDescNodes distinct nodes.
HostAddrs == {<<h, 1>> : h \in 1..NumHosts}

NodeLists ==
    {ns \in UNION {[1..n -> HostAddrs] : n \in 1..MaxDescNodes} :
        \A i, j \in 1..Len(ns) : i # j => ns[i] # ns[j]}

Descriptors ==
    {<<>>} \cup {<<[Start |-> 0, End |-> NumSlots - 1, Nodes |-> ns]>> :
                    ns \in NodeLists}

\* What ClusterSlots().Result() returns.
SlotsReplies ==
    {[err |-> ErrSlots, slots |-> <<>>]}
       \cup {[err |-> NoErr, slots |-> d] : d \in Descriptors}

\* loadState keeping the last error in place of the first.
LoaderNextSeedLastErr(l, err) ==
    IF l.ai < Len(l.addrs)
    THEN [ld |-> [l EXCEPT !.ai = l.ai + 1, !.firstErr = err, !.pc = "seed"],
          goc |-> GocStart(l.addrs[l.ai + 1])]
    ELSE [ld |-> [l EXCEPT !.firstErr = err, !.err = err, !.pc = "store"],
          goc |-> GocIdle]

\* loadState goes on to the address after addrs[ai], or returns firstErr.
\* Returns the loader and its GetOrCreate call.
LoaderNextSeed(l, err) ==
    LET first == IF l.firstErr = NoErr THEN err ELSE l.firstErr IN
    IF l.ai < Len(l.addrs)
    THEN [ld |-> [l EXCEPT !.ai = l.ai + 1, !.firstErr = first, !.pc = "seed"],
          goc |-> GocStart(l.addrs[l.ai + 1])]
    ELSE [ld |-> [l EXCEPT !.firstErr = first, !.err = first, !.pc = "store"],
          goc |-> GocIdle]

\* Load is called: loadState reads the addresses to try.
LoaderBegin(l) ==
    LET a == Addrs(nodes)
        l1 == [l EXCEPT !.loads = l.loads + 1, !.addrs = a.addrs, !.ai = 1,
                        !.firstErr = NoErr, !.err = NoErr, !.st = NoState,
                        !.desc = <<>>, !.cur = <<>>, !.si = 0, !.ni = 0,
                        !.origin = NoAddr]
    IN  IF a.err # NoErr
        THEN [ld |-> [l1 EXCEPT !.err = a.err, !.pc = "store"], goc |-> GocIdle]
        ELSE [ld |-> [l1 EXCEPT !.pc = "seed"], goc |-> GocStart(a.addrs[1])]

\* NewClusterClient calls c.state.Load().
InitialLoad ==
    /\ ld.pc = "idle" /\ ~ld.constructed /\ ld.loads = 0
    /\ LET r == LoaderBegin([ld EXCEPT !.kind = "initial"])
       IN  ld' = r.ld /\ goc' = [goc EXCEPT ![0] = r.goc]
    /\ UNCHANGED <<handles, nodes, holder, flights, timers, regFrame>>

\* LazyReload whose compare-and-swap succeeds; its goroutine calls Load.
LazyReloadLoad ==
    /\ ld.constructed /\ ld.pc = "idle"
    /\ ld.loads < MaxLoads
    /\ LazyReloadGate(holder)
    /\ holder' = [holder EXCEPT !.reloading = 1]
    /\ LET r == LoaderBegin([ld EXCEPT !.kind = "lazy"])
       IN  ld' = r.ld /\ goc' = [goc EXCEPT ![0] = r.goc]
    /\ UNCHANGED <<handles, nodes, flights, timers, regFrame>>

\* newClusterState goes on after the node at (si, ni): the next node of the
\* range, or the range's slots are assigned and the next range begins, or
\* the state is complete.
LoaderNextNode(l) ==
    LET slot == l.desc[l.si] IN
    IF l.ni < Len(slot.Nodes)
    THEN [ld |-> [l EXCEPT !.ni = l.ni + 1, !.pc = "node"],
          goc |-> GocStart(SlotNodeAddr(l.origin, slot.Nodes[l.ni + 1]))]
    ELSE LET st == [l.st EXCEPT
                      !.slots = [s \in Slots |->
                                   IF s >= slot.Start /\ s <= slot.End
                                   THEN l.cur ELSE l.st.slots[s]]]
         IN  IF l.si < Len(l.desc)
             THEN [ld |-> [l EXCEPT !.st = st, !.cur = <<>>, !.si = l.si + 1,
                                    !.ni = 1, !.pc = "node"],
                   goc |-> GocStart(SlotNodeAddr(l.origin,
                                                 l.desc[l.si + 1].Nodes[1]))]
             ELSE [ld |-> [l EXCEPT !.st = st, !.cur = <<>>, !.pc = "store"],
                   goc |-> GocIdle]

\* loadState has the result of GetOrCreate(addrs[ai]): on an error it goes
\* on to the next address; else it sends CLUSTER SLOTS, whose reply is an
\* error or the descriptor desc, and on a descriptor newClusterState
\* starts: the next generation is drawn and the first node asked for.
LoaderSlots(reply) ==
    /\ ld.pc = "seed" /\ goc[0].pc = "ret"
    /\ IF goc[0].err # NoErr
       THEN /\ reply.err = ErrSlots
            /\ LET r == LoaderNextSeed(ld, goc[0].err)
               IN  ld' = r.ld /\ goc' = [goc EXCEPT ![0] = r.goc]
            /\ UNCHANGED nodes
       ELSE IF reply.err # NoErr
       THEN /\ LET r == LoaderNextSeed(ld, ErrSlots)
               IN  ld' = r.ld /\ goc' = [goc EXCEPT ![0] = r.goc]
            /\ UNCHANGED nodes
       ELSE LET reg == NextGeneration(nodes)
                origin == handles[goc[0].node].addr
                l == [ld EXCEPT !.origin = origin, !.desc = reply.slots,
                                !.st = EmptyState(reg.generation),
                                !.cur = <<>>, !.si = 1, !.ni = 1]
            IN  /\ nodes' = reg
                /\ IF Len(reply.slots) = 0
                   THEN /\ ld' = [l EXCEPT !.pc = "store"]
                        /\ goc' = [goc EXCEPT ![0] = GocIdle]
                   ELSE /\ ld' = [l EXCEPT !.pc = "node"]
                        /\ goc' = [goc EXCEPT ![0] =
                                     GocStart(SlotNodeAddr(origin,
                                                           reply.slots[1].Nodes[1]))]
    /\ UNCHANGED <<handles, holder, flights, timers, regFrame>>

\* newClusterState has the result of GetOrCreate for the node at (si, ni):
\* an error ends it; else the node's generation is set, the node joins the
\* range's list and the masters or slaves, and the construction goes on.
LoaderSetGeneration ==
    /\ ld.pc = "node" /\ goc[0].pc = "ret"
    /\ IF goc[0].err # NoErr
       THEN /\ ld' = [ld EXCEPT !.err = goc[0].err, !.pc = "store"]
            /\ goc' = [goc EXCEPT ![0] = GocIdle]
            /\ UNCHANGED handles
       ELSE LET node == goc[0].node
                l == [ld EXCEPT
                        !.cur = Append(ld.cur, node),
                        !.st.masters = IF ld.ni = 1
                                       THEN AppendIfNotExists(@, node) ELSE @,
                        !.st.slaves = IF ld.ni = 1
                                      THEN @ ELSE AppendIfNotExists(@, node)]
                r == LoaderNextNode(l)
            IN  /\ handles' = [handles EXCEPT
                                 ![node] = SetGeneration(handles[node],
                                                         ld.st.generation)]
                /\ ld' = r.ld
                /\ goc' = [goc EXCEPT ![0] = r.goc]
    /\ UNCHANGED <<nodes, holder, flights, timers, regFrame>>

\* loadState and Load return: the GC timer of a new state is set and the
\* state stored, or the error is kept.  (The timer runs a minute, so it
\* cannot fire between newClusterState's return and the Store.)
LoaderStore ==
    /\ ld.pc = "store"
    /\ holder' = HolderLoad(holder, ld.st, ld.err)
    /\ timers' = IF ld.err = NoErr THEN timers \cup {ld.st.generation}
                 ELSE timers
    /\ ld' = [ld EXCEPT
                !.pc = IF ld.kind = "lazy" THEN "exit" ELSE "idle",
                !.constructed = TRUE,
                !.stored = IF ld.err = NoErr THEN ld.stored + 1 ELSE ld.stored,
                !.lastFail = IF ld.err = NoErr THEN ld.lastFail ELSE ld.err]
    /\ UNCHANGED <<handles, nodes, goc, flights, regFrame>>

\* The LazyReload goroutine, after its sleep if the load succeeded, clears
\* the flag and ends.
LoaderExit ==
    /\ ld.pc = "exit"
    /\ holder' = [holder EXCEPT !.reloading = 0]
    /\ ld' = [ld EXCEPT !.pc = "idle"]
    /\ UNCHANGED <<handles, nodes, goc, flights, timers, regFrame>>

(***************************************************************************)
(* The dispatcher of ClusterClient.  opt holds the client's options after  *)
(* ClusterOptions.init, dp the Process, Pipeline or TxPipeline call in     *)
(* progress.  The call runs alone: its node selection, its GetOrCreate and *)
(* the CAS of its LazyReload are taken without another goroutine in        *)
(* between, and the goroutine LazyReload spawns runs in a step of its own. *)
(* The replies of the servers are the inputs of the steps.                 *)
(* SpecDispatch and SpecPipeline leave opt.RouteByLatency and              *)
(* opt.RouteRandomly at false.                                             *)
(***************************************************************************)
DefaultMaxRedirects == 8

\* ClusterOptions.init, the MaxRedirects field
ClusterOptionsInit(maxRedirects) ==
    IF maxRedirects = -1 THEN 0
    ELSE IF maxRedirects = 0 THEN DefaultMaxRedirects
    ELSE maxRedirects

\* The values MaxRedirects is configured with.
ConfiguredRedirects == (-1)..MaxConfigured

\* ClusterOptions.init, the ReadOnly field
ClusterOptionsReadOnly(readOnly, routeByLatency) ==
    IF routeByLatency THEN TRUE ELSE readOnly

\* The options after init, configured with MaxRedirects m, ReadOnly ro,
\* RouteByLatency byLatency and RouteRandomly randomly.
ClusterOptions(m, ro, byLatency, randomly) ==
    [configured |-> m, MaxRedirects |-> ClusterOptionsInit(m),
     ReadOnly |-> ClusterOptionsReadOnly(ro, byLatency),
     RouteByLatency |-> byLatency, RouteRandomly |-> randomly]

\* A reply or error of a round trip; addr is the target of a redirect.
Reply(kind, addr) == [kind |-> kind, addr |-> addr]

NoReply == Reply("none", NoAddr)

Redirects == {Reply(k, a) : k \in {"MOVED", "ASK"}, a \in HostAddrs}

\* What node.Client.Process may come back with.
ProcessReplies ==
    {Reply(k, NoAddr) : k \in {"ok", "LOADING", "retryable", "closed", "other"}}
       \cup Redirects

\* The error a reply leaves on its command.
ReplyErr(reply) ==
    IF reply.kind = "ok" THEN NoErr
    ELSE IF reply.kind = "closed" THEN ErrClosed
    ELSE reply.kind

\* The branch of defaultProcess a reply takes.  Whether IsRetryableError
\* takes a LOADING error on a client that is not read-only is not decided
\* in this file: both branches are open to it.
Classes(reply) ==
    IF reply.kind = "LOADING" /\ ~opt.ReadOnly THEN {"retryable", "other"}
    ELSE {reply.kind}

\* A node and an error returned together with the registry as left.
Sel(reg, hs, node, err) ==
    [nodes |-> reg, handles |-> hs, node |-> node, err |-> err]

\* clusterState.slotMasterNode
SlotMasterNode(state, reg, hs, slot) ==
    LET ns == SlotNodes(state, slot) IN
    IF Len(ns) > 0 THEN {Sel(reg, hs, ns[1], NoErr)} ELSE Random(reg, hs)

\* clusterState.slotSlaveNode run in one piece: in the default case the
\* loop returns a replica that is not loading, or, after Probes draws of
\* loading ones, the last replica drawn.
SlotSlaveNode(state, reg, hs, slot, t) ==
    LET ns == SlotNodes(state, slot) IN
    CASE Len(ns) = 0 -> Random(reg, hs)
      [] Len(ns) = 1 -> {Sel(reg, hs, ns[1], NoErr)}
      [] Len(ns) = 2 ->
           {Sel(reg, [hs EXCEPT ![ns[2]] = LoadingEffect(hs[ns[2]], t)],
                IF ~Loading(hs[ns[2]], t) THEN ns[2] ELSE ns[1], NoErr)}
      [] OTHER ->
           {Sel(reg, [hs EXCEPT ![ns[n]] = LoadingEffect(hs[ns[n]], t)],
                ns[n], NoErr) : n \in SlaveDraws(ns)}

\* const threshold = time.Millisecond, in milliseconds
Threshold == 1

RECURSIVE ClosestFrom(_, _, _, _, _)
\* The loop of slotClosestNode from ns[i] on, node being the incumbent.
ClosestFrom(ns, hs, t, i, node) ==
    IF i > Len(ns) THEN node
    ELSE LET n == ns[i] IN
         IF Loading(hs[n], t) THEN ClosestFrom(ns, hs, t, i + 1, node)
         ELSE IF node = NoNode \/ hs[node].latency - hs[n].latency > Threshold
         THEN ClosestFrom(ns, hs, t, i + 1, n)
         ELSE ClosestFrom(ns, hs, t, i + 1, node)

\* clusterState.slotClosestNode
SlotClosestNode(state, reg, hs, slot, t) ==
    LET ns == SlotNodes(state, slot) IN
    IF Len(ns) = 0 THEN Random(reg, hs)
    ELSE {Sel(reg,
              [i \in 1..Len(hs) |->
                 IF SeqContains(ns, i) THEN LoadingEffect(hs[i], t) ELSE hs[i]],
              ClosestFrom(ns, hs, t, 1, NoNode), NoErr)}

\* rand.Intn(0) panics
Panic == "panic"

\* clusterState.slotRandomNode
SlotRandomNode(state, reg, hs, slot) ==
    LET ns == SlotNodes(state, slot) IN
    IF Len(ns) = 0 THEN {Sel(reg, hs, NoNode, Panic)}
    ELSE {Sel(reg, hs, ns[n], NoErr) : n \in 1..Len(ns)}

\* cmdSlotAndNode that sends read-only commands to the replicas whatever
\* the client's ReadOnly option.
CmdSlotAndNodeAnyClient(h, reg, hs, slot, readOnlyCmd, t) ==
    LET g == HolderGet(h) IN
    IF g.err # NoErr THEN {Sel(reg, hs, NoNode, g.err)}
    ELSE IF readOnlyCmd THEN SlotSlaveNode(g.state, reg, hs, slot, t)
    ELSE SlotMasterNode(g.state, reg, hs, slot)

\* ClusterClient.cmdSlotAndNode for a command of the given slot
CmdSlotAndNode(h, reg, hs, slot, readOnlyCmd, t) ==
    LET g == HolderGet(h) IN
    IF g.err # NoErr THEN {Sel(reg, hs, NoNode, g.err)}
    ELSE IF readOnlyCmd /\ opt.ReadOnly
    THEN IF opt.RouteByLatency
         THEN SlotClosestNode(g.state, reg, hs, slot, t)
         ELSE IF opt.RouteRandomly
         THEN SlotRandomNode(g.state, reg, hs, slot)
         ELSE SlotSlaveNode(g.state, reg, hs, slot, t)
    ELSE SlotMasterNode(g.state, reg, hs, slot)

\* A fresh node selection on its own: cmdSlotAndNode for a command of the
\* slot, its result kept with the slot's list as the snapshot holds it.
SelectCall(slot, readOnlyCmd) ==
    /\ dp.kind = "idle"
    /\ \E s \in CmdSlotAndNode(holder, nodes, handles, slot, readOnlyCmd, now) :
         /\ nodes' = s.nodes /\ handles' = s.handles
         /\ dp' = [kind |-> "select", pc |-> "done", slot |-> slot,
                   readOnly |-> readOnlyCmd, node |-> s.node, err |-> s.err,
                   list |-> SlotNodes(HolderGet(holder).state, slot),
                   loading |-> {n \in 1..Len(handles) :
                                  Loading(handles[n], now)}]
    /\ UNCHANGED <<holder, opt, dispFrame>>

\* newClusterState's choice of the address of one reported node, on its
\* own.
OriginAddrCall(origin, addr) ==
    /\ dp.kind = "idle"
    /\ dp' = [kind |-> "addr", pc |-> "done", origin |-> origin,
              addr |-> addr, used |-> SlotNodeAddr(origin, addr)]
    /\ UNCHANGED <<handles, nodes, holder, opt, dispFrame>>

(***************************************************************************)
(* ForEachMaster, ForEachSlave and ForEachNode.  dp.list holds the nodes   *)
(* the loop has yet to spawn a goroutine for, dp.tasks the goroutines      *)
(* spawned, dp.errCh the buffered channel.                                 *)
(***************************************************************************)
\* errCh := make(chan error, 1)
ErrChCap == 1

\* The errors fn returns.
FnErrs == {"fn failed", "fn failed otherwise"}

\* select { case errCh <- err: default: }
TrySend(ch, e) == IF Len(ch) < ErrChCap THEN Append(ch, e) ELSE ch

\* select { case err := <-errCh: return err; default: return nil }
TryReceive(ch) == IF Len(ch) > 0 THEN Head(ch) ELSE NoErr

\* wg.Wait() that returns at once.
WgWaitNoWait(tasks) == TRUE

\* wg.Wait() returns: every goroutine has called wg.Done().
WgWait(tasks) == \A i \in 1..Len(tasks) : tasks[i].pc = "done"

\* The nodes a fan-out helper ranges over.
ForEachNodes(which, state) ==
    CASE which = "master" -> state.masters
      [] which = "slave" -> state.slaves
      [] OTHER -> state.masters \o state.slaves

\* The call up to its loop.
ForEachCall(which) ==
    /\ dp.kind = "idle"
    /\ LET g == HolderGet(holder) IN
       dp' = [kind |-> "foreach", which |-> which, got |-> g.err = NoErr,
              pc |-> IF g.err # NoErr THEN "done" ELSE "spawn",
              nodes |-> IF g.err # NoErr THEN <<>>
                        ELSE ForEachNodes(which, g.state),
              list |-> IF g.err # NoErr THEN <<>>
                       ELSE ForEachNodes(which, g.state),
              tasks |-> <<>>, errCh |-> <<>>, err |-> g.err]
    /\ UNCHANGED <<handles, nodes, holder, opt, dispFrame>>

\* wg.Add(1) and the go statement for the next node; after the last one
\* the call is at wg.Wait().
ForEachSpawn ==
    /\ dp.kind = "foreach" /\ dp.pc = "spawn"
    /\ dp' = IF dp.list = <<>> THEN [dp EXCEPT !.pc = "wait"]
             ELSE [dp EXCEPT
                     !.list = Tail(@),
                     !.tasks = Append(@, [node |-> Head(dp.list),
                                          pc |-> "run", err |-> NoErr])]
    /\ UNCHANGED <<handles, nodes, holder, opt, dispFrame>>

\* fn(node.Client) returns err in goroutine i.
TaskRun(i, err) ==
    /\ dp.kind = "foreach" /\ i \in 1..Len(dp.tasks)
    /\ dp.tasks[i].pc = "run"
    /\ dp' = [dp EXCEPT !.tasks[i].err = err,
                        !.tasks[i].pc = IF err = NoErr THEN "exit"
                                        ELSE "report"]
    /\ UNCHANGED <<handles, nodes, holder, opt, dispFrame>>

\* Goroutine i reports its error: the select with the default case.
TaskReport(i) ==
    /\ dp.kind = "foreach" /\ i \in 1..Len(dp.tasks)
    /\ dp.tasks[i].pc = "report"
    /\ dp' = [dp EXCEPT !.errCh = TrySend(@, dp.tasks[i].err),
                        !.tasks[i].pc = "exit"]
    /\ UNCHANGED <<handles, nodes, holder, opt, dispFrame>>

\* Goroutine i ends: the deferred wg.Done().
TaskExit(i) ==
    /\ dp.kind = "foreach" /\ i \in 1..Len(dp.tasks)
    /\ dp.tasks[i].pc = "exit"
    /\ dp' = [dp EXCEPT !.tasks[i].pc = "done"]
    /\ UNCHANGED <<handles, nodes, holder, opt, dispFrame>>

\* wg.Wait() returns and the last select takes what errCh holds.
ForEachWait ==
    /\ dp.kind = "foreach" /\ dp.pc = "wait"
    /\ WgWait(dp.tasks)
    /\ dp' = [dp EXCEPT !.pc = "done", !.err = TryReceive(dp.errCh)]
    /\ UNCHANGED <<handles, nodes, holder, opt, dispFrame>>

\* LazyReload that spawns nothing.
LazyReloadSkipped(h) == h

\* clusterStateHolder.LazyReload as its caller sees it: the CAS of the
\* reloading flag; the goroutine it spawns is LazyReloadTask.
LazyReloadCall(h) ==
    IF LazyReloadGate(h) THEN [h EXCEPT !.reloading = 1] ELSE h

\* The snapshots a load can build over the handles hs, all slots alike.
LoadableLists(hs) ==
    {<<>>, <<1>>} \cup (IF Len(hs) >= 2 THEN {<<2, 1>>} ELSE {})

\* The goroutine of LazyReload from its Load to the reset of the flag,
\* the load taken as a whole: it fails, or draws the next generation,
\* stamps the nodes of the slot lists and stores the snapshot.
LazyReloadTask(ns, err) ==
    /\ holder.reloading = 1
    /\ ns \in LoadableLists(handles)
    /\ err = NoErr => nodes.generation < MaxDispatchGen
    /\ IF err # NoErr
       THEN /\ holder' = [HolderLoad(holder, NoState, err)
                             EXCEPT !.reloading = 0]
            /\ UNCHANGED <<nodes, handles>>
       ELSE LET reg == NextGeneration(nodes)
                st == [EmptyState(reg.generation)
                          EXCEPT !.slots = [s \in Slots |-> ns]]
            IN  /\ nodes' = reg
                /\ handles' = [i \in 1..Len(handles) |->
                                 IF SeqContains(ns, i)
                                 THEN SetGeneration(handles[i], reg.generation)
                                 ELSE handles[i]]
                /\ holder' = [HolderLoad(holder, st, NoErr)
                                 EXCEPT !.reloading = 0]
    /\ UNCHANGED <<opt, dp, dispFrame>>

DpIdle == [kind |-> "idle"]

\* The last round trip of a Process call: the node written to, whether
\* ASKING went before the command, and the redirect the node came from.
NoSent == [node |-> NoNode, asking |-> FALSE, via |-> "none"]

\* Process(cmd): defaultProcess is entered for a command of the slot.
ProcessCall(slot, readOnlyCmd) ==
    /\ dp.kind = "idle"
    /\ dp' = [kind |-> "process", pc |-> "loop", slot |-> slot,
              readOnly |-> readOnlyCmd, attempt |-> 0, node |-> NoNode,
              ask |-> FALSE, via |-> "none", err |-> NoErr, trips |-> 0,
              sent |-> NoSent]
    /\ UNCHANGED <<handles, nodes, holder, opt, dispFrame>>

\* continue: the next iteration, or the end of the loop
Continue(d) ==
    [d EXCEPT !.attempt = @ + 1,
              !.pc = IF d.attempt + 1 > opt.MaxRedirects THEN "done" ELSE @]

\* break
Break(d) == [d EXCEPT !.pc = "done"]

\* defaultProcess after the round trip of an attempt: d is the call with
\* the reply recorded, s the registry as the node selection left it.
ProcessReply(d, s, reply, class) ==
    CASE class = "ok" ->
           /\ dp' = Break(d)
           /\ nodes' = s.nodes /\ handles' = s.handles
           /\ UNCHANGED holder
      [] class = "LOADING" ->
           /\ dp' = Continue(d)
           /\ handles' = [s.handles EXCEPT
                            ![s.node] = MarkAsLoading(s.handles[s.node], now)]
           /\ nodes' = s.nodes
           /\ UNCHANGED holder
      [] class = "retryable" ->
           /\ \E r \in Random(s.nodes, s.handles) :
                /\ nodes' = r.nodes /\ handles' = r.handles
                /\ dp' = IF r.err # NoErr
                         THEN Break([d EXCEPT !.node = r.node])
                         ELSE Continue([d EXCEPT !.node = r.node])
           /\ UNCHANGED holder
      [] class \in {"MOVED", "ASK"} ->
           /\ holder' = LazyReloadCall(holder)
           /\ \E r \in GetOrCreate(s.nodes, s.handles, reply.addr) :
                /\ nodes' = r.nodes /\ handles' = r.handles
                /\ dp' = IF r.err # NoErr
                         THEN Break([d EXCEPT !.node = r.node,
                                              !.ask = (class = "ASK"),
                                              !.via = class])
                         ELSE Continue([d EXCEPT !.node = r.node,
                                                 !.ask = (class = "ASK"),
                                                 !.via = class])
      [] class = "closed" ->
           /\ dp' = Continue([d EXCEPT !.node = NoNode])
           /\ nodes' = s.nodes /\ handles' = s.handles
           /\ UNCHANGED holder
      [] OTHER ->
           /\ dp' = Break(d)
           /\ nodes' = s.nodes /\ handles' = s.handles
           /\ UNCHANGED holder

\* One iteration of the loop of defaultProcess: the node selection when no
\* node is carried over, the round trip (the command alone, or after
\* ASKING in a pipeline) and the handling of its reply.
ProcessAttempt(reply) ==
    /\ dp.kind = "process" /\ dp.pc = "loop"
    /\ \E s \in (IF dp.node = NoNode
                 THEN CmdSlotAndNode(holder, nodes, handles, dp.slot,
                                     dp.readOnly, now)
                 ELSE {Sel(nodes, handles, dp.node, NoErr)}) :
         IF s.err # NoErr \/ s.node = NoNode
         THEN /\ dp' = Break([dp EXCEPT !.err = IF s.err # NoErr THEN s.err
                                                ELSE Panic])
              /\ nodes' = s.nodes /\ handles' = s.handles
              /\ UNCHANGED holder
         ELSE \E class \in Classes(reply) :
                 ProcessReply([dp EXCEPT !.node = s.node,
                                         !.ask = FALSE,
                                         !.via = "none",
                                         !.err = ReplyErr(reply),
                                         !.trips = @ + 1,
                                         !.sent = [node |-> s.node,
                                                   asking |-> dp.ask,
                                                   via |-> dp.via]],
                              s, reply, class)
    /\ UNCHANGED <<opt, dispFrame>>

\* The call returns cmd.Err(), firstCmdsErr(cmds) or its error.
DispatchReturn ==
    /\ dp.kind # "idle" /\ dp.pc = "done"
    /\ dp' = DpIdle
    /\ UNCHANGED <<handles, nodes, holder, opt, dispFrame>>

(***************************************************************************)
(* The pipelines.  The commands of a pipeline are 1..Len(dp.slots) in the  *)
(* order submitted, dp.slots[c] the slot of command c; Asking is the ASKING*)
(* command checkMovedErr puts before a command.  cmdsMap and failedCmds    *)
(* are functions from nodes to sequences of commands; the range loop over  *)
(* cmdsMap takes the nodes of dp.pending in any order, one step per node   *)
(* and one per reply read.  dp.trips[c] counts the round trips command c   *)
(* was written in.                                                         *)
(***************************************************************************)
Cmds == 1..NumCmds

Asking == 0

\* The commands of the pipeline submitted with the slots given.
AllCmds(slots) == [i \in 1..Len(slots) |-> i]

ErrConn == "getConn failed"
ErrWrite == "write failed"
TxFailedErr == "redis: transaction failed"

\* What reading one reply of a pipeline may come back with.
PipeReplies ==
    {Reply(k, NoAddr) : k \in {"ok", "rediserr", "neterr"}} \cup Redirects

\* What reading the reply of EXEC may come back with.
ExecReplies ==
    {Reply(k, NoAddr) : k \in {"array", "nil", "rediserr", "neterr"}}
       \cup Redirects

\* How getConn and the write of a bucket may end.
ConnResults == {"ok", "closed", "connerr", "writeerr"}

Bucket(m, n) == IF n \in DOMAIN m THEN m[n] ELSE <<>>

\* failedCmds[node] = append(failedCmds[node], cs...)
BucketAppend(m, n, cs) == (n :> (Bucket(m, n) \o cs)) @@ m

BucketsBounded(m) == \A n \in DOMAIN m : Len(m[n]) <= MaxBucketLen

\* setCmdsErr that marks the first command only.
SetCmdsErrFirstOnly(errs, cmds, e) ==
    [c \in DOMAIN errs |-> IF Len(cmds) > 0 /\ c = cmds[1] THEN e
                           ELSE errs[c]]

\* setCmdsErr
SetCmdsErr(errs, cmds, e) ==
    [c \in DOMAIN errs |-> IF SeqContains(cmds, c) THEN e ELSE errs[c]]

\* The round trip of a bucket, counted on each command in it.
Written(trips, cmds) ==
    [c \in DOMAIN trips |-> IF SeqContains(cmds, c) THEN trips[c] + 1
                            ELSE trips[c]]

\* ClusterClient.cmdSlot: ASKING has no key and gets a random slot
CmdSlot(slots, c) == IF c = Asking THEN Slots ELSE {slots[c]}

\* mapCmdsBySlot that puts every command into every slot's group.
SlotCmdsWholePipeline(slots, slot) == AllCmds(slots)

\* The commands of a slot, in the order submitted (mapCmdsBySlot).
SlotCmds(slots, slot) ==
    SelectSeq(AllCmds(slots), LAMBDA c : slots[c] = slot)

RECURSIVE MapCmdsFrom(_, _, _, _, _, _, _)
\* The loop of mapCmdsByNode from command i of cmds on.
MapCmdsFrom(state, reg, hs, cmds, slots, i, map) ==
    IF i > Len(cmds)
    THEN {[nodes |-> reg, handles |-> hs, map |-> map, err |-> NoErr]}
    ELSE UNION {IF r.err # NoErr
                THEN {[nodes |-> r.nodes, handles |-> r.handles,
                       map |-> <<>>, err |-> r.err]}
                ELSE MapCmdsFrom(state, r.nodes, r.handles, cmds, slots, i + 1,
                                 BucketAppend(map, r.node, <<cmds[i]>>))
                  : r \in UNION {SlotMasterNode(state, reg, hs, slot)
                                    : slot \in CmdSlot(slots, cmds[i])}}

\* ClusterClient.mapCmdsByNode
MapCmdsByNode(h, reg, hs, cmds, slots) ==
    LET g == HolderGet(h) IN
    IF g.err # NoErr
    THEN {[nodes |-> reg, handles |-> hs, map |-> <<>>, err |-> g.err]}
    ELSE MapCmdsFrom(g.state, reg, hs, cmds, slots, 1, <<>>)

\* ClusterClient.checkMovedErr for the reply of one command
CheckMovedErr(failed, reg, hs, h, cmd, reply) ==
    CASE reply.kind = "MOVED" ->
           {[nodes |-> r.nodes, handles |-> r.handles,
             holder |-> LazyReloadCall(h),
             failed |-> IF r.err # NoErr THEN failed
                        ELSE BucketAppend(failed, r.node, <<cmd>>),
             ok |-> r.err = NoErr]
              : r \in GetOrCreate(reg, hs, reply.addr)}
      [] reply.kind = "ASK" ->
           {[nodes |-> r.nodes, handles |-> r.handles,
             holder |-> h,
             failed |-> IF r.err # NoErr THEN failed
                        ELSE BucketAppend(failed, r.node, <<Asking, cmd>>),
             ok |-> r.err = NoErr]
              : r \in GetOrCreate(reg, hs, reply.addr)}
      [] OTHER ->
           {[nodes |-> reg, handles |-> hs, holder |-> h,
             failed |-> failed, ok |-> FALSE]}

RECURSIVE CheckMovedAll(_, _, _, _, _, _, _)
\* The loop of txPipelineReadQueued over the error reply of EXEC:
\* checkMovedErr for command i of cmds on, until it returns false.
CheckMovedAll(failed, reg, hs, h, cmds, i, reply) ==
    IF i > Len(cmds)
    THEN {[nodes |-> reg, handles |-> hs, holder |-> h, failed |-> failed]}
    ELSE UNION {IF r.ok
                THEN CheckMovedAll(r.failed, r.nodes, r.handles, r.holder,
                                   cmds, i + 1, reply)
                ELSE {[nodes |-> r.nodes, handles |-> r.handles,
                       holder |-> r.holder, failed |-> r.failed]}
                  : r \in CheckMovedErr(failed, reg, hs, h, cmds[i], reply)}

\* cn of the range loop over the buckets: the node whose pool it was
\* borrowed from, whether the loop body still holds it, how often it was
\* given to connPool.Put and to connPool.Remove, and the error the bucket's
\* processing returned.
NoConn == [node |-> NoNode, held |-> FALSE, puts |-> 0, removes |-> 0,
           err |-> NoErr]

\* node.Client.getConn() that returns a connection
GetConn(n) == [NoConn EXCEPT !.node = n, !.held = TRUE]

\* internal.IsRedisError: the error is an error reply of the server
IsRedisError(err) == err \in {"rediserr", "MOVED", "ASK", TxFailedErr}

\* The connection given to connPool.Put whatever the processing returned.
PutAlways(cn, err) ==
    [cn EXCEPT !.held = FALSE, !.puts = @ + 1, !.err = err]

\* The end of the loop body: connPool.Put after success or an error reply,
\* connPool.Remove after any other error.
PutOrRemove(cn, err) ==
    IF err = NoErr \/ IsRedisError(err)
    THEN [cn EXCEPT !.held = FALSE, !.puts = @ + 1, !.err = err]
    ELSE [cn EXCEPT !.held = FALSE, !.removes = @ + 1, !.err = err]

\* A pipeline call as it starts.
NewPipe(kind, slots) ==
    [kind |-> kind, pc |-> "groups", slots |-> slots, attempt |-> 0,
     cmdsMap |-> <<>>, failed |-> <<>>, pending |-> {}, cur |-> NoNode,
     ri |-> 0, errs |-> [c \in DOMAIN slots |-> NoErr],
     trips |-> [c \in DOMAIN slots |-> 0], state |-> NoState, todo |-> {},
     slot |-> 0, err |-> NoErr, cn |-> NoConn]

\* The bucket of node n is taken from dp.pending; getConn or the write
\* failed: pool.ErrClosed remaps the bucket, another getConn error marks
\* its commands, a write error marks them and keeps the bucket.
BucketNotWritten(n, conn) ==
    LET cmds == dp.cmdsMap[n]
        d == [dp EXCEPT !.pending = @ \ {n}, !.cn = NoConn]
    IN  CASE conn = "closed" ->
               \E r \in MapCmdsByNode(holder, nodes, handles, cmds, dp.slots) :
                  /\ nodes' = r.nodes /\ handles' = r.handles
                  /\ dp' = IF r.err # NoErr
                           THEN [d EXCEPT !.errs = SetCmdsErr(@, cmds, r.err)]
                           ELSE [d EXCEPT !.failed = r.map @@ @]
          [] conn = "connerr" ->
               /\ dp' = [d EXCEPT !.errs = SetCmdsErr(@, cmds, ErrConn)]
               /\ UNCHANGED <<nodes, handles>>
          [] OTHER ->
               /\ dp' = [d EXCEPT !.errs = SetCmdsErr(@, cmds, ErrWrite),
                                  !.failed = (n :> cmds) @@ @,
                                  !.cn = PutOrRemove(GetConn(n), ErrWrite)]
               /\ UNCHANGED <<nodes, handles>>

\* The bucket of node n is written and its replies are about to be read.
BucketWritten(n, pc) ==
    [dp EXCEPT !.pending = @ \ {n}, !.pc = pc, !.cur = n, !.ri = 1,
               !.trips = Written(@, dp.cmdsMap[n]), !.cn = GetConn(n)]

\* The processing of a bucket is over and has returned err.
BucketRead(d, err) ==
    [d EXCEPT !.pc = "groups", !.cur = NoNode, !.ri = 0,
              !.cn = PutOrRemove(@, err)]

\* The end of an attempt: the loop ends, or goes on with failedCmds.
NextAttempt(d, ended) ==
    IF DOMAIN d.failed = {} \/ d.attempt + 1 > opt.MaxRedirects
    THEN [ended EXCEPT !.cn = NoConn]
    ELSE [d EXCEPT !.attempt = @ + 1, !.cmdsMap = d.failed, !.failed = <<>>,
                   !.pending = DOMAIN d.failed, !.cn = NoConn]

\* firstCmdsErr
FirstCmdsErr(errs) ==
    IF \A c \in DOMAIN errs : errs[c] = NoErr THEN NoErr
    ELSE errs[CHOOSE c \in DOMAIN errs :
                 errs[c] # NoErr /\ \A b \in 1..(c - 1) : errs[b] = NoErr]

\* defaultProcessPipeline up to its loop: mapCmdsByNode
PipelineCall(slots) ==
    /\ dp.kind = "idle"
    /\ \E r \in MapCmdsByNode(holder, nodes, handles, AllCmds(slots),
                                slots) :
         /\ nodes' = r.nodes /\ handles' = r.handles
         /\ dp' = IF r.err # NoErr
                  THEN [NewPipe("pipeline", slots) EXCEPT
                          !.pc = "done", !.err = r.err,
                          !.errs = [c \in DOMAIN slots |-> r.err]]
                  ELSE [NewPipe("pipeline", slots) EXCEPT
                          !.cmdsMap = r.map, !.pending = DOMAIN r.map]
    /\ UNCHANGED <<holder, opt, dispFrame>>

\* The body of the range loop for the bucket of node n: getConn and the
\* write of pipelineProcessCmds.
PipelineConn(n, conn) ==
    /\ dp.kind = "pipeline" /\ dp.pc = "groups" /\ n \in dp.pending
    /\ IF conn = "ok"
       THEN /\ dp' = BucketWritten(n, "read")
            /\ UNCHANGED <<nodes, handles>>
       ELSE BucketNotWritten(n, conn)
    /\ UNCHANGED <<holder, opt, dispFrame>>

\* pipelineReadCmds, one iteration: the reply of command ri of the bucket
PipelineRead(reply) ==
    /\ dp.kind = "pipeline" /\ dp.pc = "read"
    /\ LET cmds == dp.cmdsMap[dp.cur]
           cmd == cmds[dp.ri]
           d == IF cmd = Asking THEN dp
                ELSE [dp EXCEPT !.errs[cmd] = ReplyErr(reply)]
       IN  \E r \in CheckMovedErr(dp.failed, nodes, handles, holder,
                                  cmd, reply) :
              /\ BucketsBounded(r.failed)
              /\ nodes' = r.nodes /\ handles' = r.handles
              /\ holder' = r.holder
              /\ dp' = IF reply.kind = "neterr"
                       THEN BucketRead(d, ReplyErr(reply))
                       ELSE IF dp.ri < Len(cmds)
                       THEN [d EXCEPT !.ri = @ + 1, !.failed = r.failed]
                       ELSE BucketRead([d EXCEPT !.failed = r.failed], NoErr)
    /\ UNCHANGED <<opt, dispFrame>>

\* The end of an attempt of defaultProcessPipeline.
PipelineNext ==
    /\ dp.kind = "pipeline" /\ dp.pc = "groups" /\ dp.pending = {}
    /\ dp' = NextAttempt(dp, [dp EXCEPT !.pc = "done",
                                        !.err = FirstCmdsErr(dp.errs)])
    /\ UNCHANGED <<handles, nodes, holder, opt, dispFrame>>

\* defaultProcessTxPipeline up to its loop over the slots
TxPipelineCall(slots) ==
    /\ dp.kind = "idle"
    /\ LET g == HolderGet(holder) IN
       dp' = IF g.err # NoErr
             THEN [NewPipe("tx", slots) EXCEPT !.pc = "done", !.err = g.err]
             ELSE [NewPipe("tx", slots) EXCEPT
                     !.pc = "slots", !.state = g.state,
                     !.todo = {slots[c] : c \in DOMAIN slots}]
    /\ UNCHANGED <<handles, nodes, holder, opt, dispFrame>>

\* The loop over the slots takes a slot: its primary in the snapshot
\* fetched at the start gets the first bucket.
TxSlot(slot) ==
    /\ dp.kind = "tx" /\ dp.pc = "slots" /\ slot \in dp.todo
    /\ \E r \in SlotMasterNode(dp.state, nodes, handles, slot) :
         /\ nodes' = r.nodes /\ handles' = r.handles
         /\ dp' = IF r.err # NoErr
                  THEN [dp EXCEPT
                          !.errs = SetCmdsErr(@, SlotCmds(dp.slots, slot),
                                              r.err),
                          !.todo = @ \ {slot}]
                  ELSE [dp EXCEPT
                          !.pc = "groups", !.slot = slot, !.attempt = 0,
                          !.cmdsMap = (r.node :> SlotCmds(dp.slots, slot)),
                          !.failed = <<>>, !.pending = {r.node}]
    /\ UNCHANGED <<holder, opt, dispFrame>>

\* The body of the range loop for the bucket of node n: getConn, the
\* write of MULTI, the commands and EXEC, and the reply of MULTI.
TxConn(n, conn) ==
    /\ dp.kind = "tx" /\ dp.pc = "groups" /\ n \in dp.pending
    /\ CASE conn = "ok" ->
              /\ dp' = BucketWritten(n, "queued")
              /\ UNCHANGED <<nodes, handles>>
         [] conn = "multierr" ->
              /\ dp' = [BucketRead(BucketWritten(n, "queued"), "neterr")
                          EXCEPT
                          !.errs = SetCmdsErr(@, dp.cmdsMap[n], "neterr")]
              /\ UNCHANGED <<nodes, handles>>
         [] OTHER -> BucketNotWritten(n, conn)
    /\ UNCHANGED <<holder, opt, dispFrame>>

\* txPipelineReadQueued, one iteration of its loop over the commands: the
\* status reply of command ri of the bucket
TxQueued(reply) ==
    /\ dp.kind = "tx" /\ dp.pc = "queued"
    /\ LET cmds == dp.cmdsMap[dp.cur]
           cmd == cmds[dp.ri]
       IN  \E r \in CheckMovedErr(dp.failed, nodes, handles, holder,
                                  cmd, reply) :
              /\ BucketsBounded(r.failed)
              /\ nodes' = r.nodes /\ handles' = r.handles
              /\ holder' = r.holder
              /\ dp' = IF reply.kind = "neterr"
                       THEN BucketRead([dp EXCEPT
                              !.errs = SetCmdsErr(@, cmds, ReplyErr(reply))],
                              ReplyErr(reply))
                       ELSE IF dp.ri < Len(cmds)
                       THEN [dp EXCEPT !.ri = @ + 1, !.failed = r.failed]
                       ELSE [dp EXCEPT !.pc = "exec", !.failed = r.failed]
    /\ UNCHANGED <<opt, dispFrame>>

\* txPipelineReadQueued from the line of EXEC's reply on, and the
\* pipelineReadCmds that follows an array reply.
TxExec(reply) ==
    /\ dp.kind = "tx" /\ dp.pc = "exec"
    /\ LET cmds == dp.cmdsMap[dp.cur] IN
       CASE reply.kind = "array" ->
              /\ \E e \in {NoErr, "rediserr"} :
                    dp' = BucketRead([dp EXCEPT
                                        !.errs = SetCmdsErr(@, cmds, e)],
                                     NoErr)
              /\ UNCHANGED <<nodes, handles, holder>>
         [] reply.kind \in {"nil", "neterr"} ->
              /\ LET err == IF reply.kind = "nil" THEN TxFailedErr
                            ELSE ReplyErr(reply)
                 IN  dp' = BucketRead([dp EXCEPT
                                         !.errs = SetCmdsErr(@, cmds, err)],
                                      err)
              /\ UNCHANGED <<nodes, handles, holder>>
         [] OTHER ->
              \E r \in CheckMovedAll(dp.failed, nodes, handles, holder,
                                     cmds, 1, reply) :
                 /\ BucketsBounded(r.failed)
                 /\ nodes' = r.nodes /\ handles' = r.handles
                 /\ holder' = r.holder
                 /\ dp' = BucketRead([dp EXCEPT
                             !.failed = r.failed,
                             !.errs = SetCmdsErr(@, cmds, ReplyErr(reply))],
                             ReplyErr(reply))
    /\ UNCHANGED <<opt, dispFrame>>

\* The end of an attempt of a slot's loop in defaultProcessTxPipeline.
TxNext ==
    /\ dp.kind = "tx" /\ dp.pc = "groups" /\ dp.pending = {}
    /\ dp' = NextAttempt(dp, [dp EXCEPT !.pc = "slots",
                                        !.todo = @ \ {dp.slot}])
    /\ UNCHANGED <<handles, nodes, holder, opt, dispFrame>>

\* The loop over the slots is over.
TxSlotsDone ==
    /\ dp.kind = "tx" /\ dp.pc = "slots" /\ dp.todo = {}
    /\ dp' = [dp EXCEPT !.pc = "done", !.err = FirstCmdsErr(dp.errs)]
    /\ UNCHANGED <<handles, nodes, holder, opt, dispFrame>>

(***************************************************************************)
(* SpecGen: SetGeneration calls racing on one node.                        *)
(***************************************************************************)

\* The registry's goroutines at rest.
RegIdleInit ==
    /\ goc = [p \in Procs |-> GocIdle]
    /\ flights = <<>>
    /\ ld = LoaderIdle
    /\ timers = {}

\* No dispatcher call is in progress; the options are the defaults.
DispIdleInit ==
    /\ opt = ClusterOptions(0, FALSE, FALSE, FALSE)
    /\ dp = DpIdle

InitGen ==
    /\ now = 0
    /\ \E g \in 0..MaxGen :
         handles = <<[NewClusterNode(<<1, 1>>) EXCEPT !.generation = g]>>
    /\ nodes = NewClusterNodes(<<>>)
    /\ holder = NoHolder
    /\ sg = [c \in GenCallers |-> SetGenIdle]
    /\ sl = SlaveIdle
    /\ rl = ReloadIdle
    /\ RegIdleInit
    /\ DispIdleInit

NextGen ==
    \/ \E c \in GenCallers, g \in 0..MaxGen : SetGenCall(c, g)
    \/ \E c \in GenCallers : SetGenLoad(c)
    \/ \E c \in GenCallers : SetGenCAS(c)
    \/ \E c \in GenCallers : SetGenReturn(c)

SpecGen == InitGen /\ [][NextGen]_vars

(***************************************************************************)
(* SpecSlave: slotSlaveNode on a snapshot whose slot 0 holds the first     *)
(* len nodes of the registry (slot 1 is unassigned), each node unmarked,   *)
(* marked as loading a minute ago (expired) or marked less than a minute   *)
(* ago.                                                                    *)
(***************************************************************************)
SlaveAddr(i) == <<i, 1>>

SlaveStamps == {0, Minute, Minute + 1}

InitSlave ==
    /\ now = 2 * Minute
    /\ \E st \in [1..MaxListLen -> SlaveStamps] :
         handles = [i \in 1..MaxListLen |->
                      [NewClusterNode(SlaveAddr(i)) EXCEPT
                         !.generation = 1, !.loading = st[i]]]
    /\ nodes = [NewClusterNodes(<<SlaveAddr(1)>>) EXCEPT
                  !.allAddrs = [i \in 1..MaxListLen |-> SlaveAddr(i)],
                  !.clusterAddrs = [i \in 1..MaxListLen |-> SlaveAddr(i)],
                  !.allNodes = [a \in {SlaveAddr(i) : i \in 1..MaxListLen}
                                  |-> a[1]],
                  !.generation = 1]
    /\ \E len \in 0..MaxListLen :
         holder = [NoHolder EXCEPT
                     !.state = [generation |-> 1,
                                slots |-> [s \in Slots |->
                                             IF s = 0
                                             THEN [i \in 1..len |-> i]
                                             ELSE <<>>],
                                masters |-> IF len > 0 THEN <<1>> ELSE <<>>,
                                slaves |-> [i \in 1..(len - 1) |-> i + 1]]]
    /\ sg = [c \in GenCallers |-> SetGenIdle]
    /\ sl = SlaveIdle
    /\ rl = ReloadIdle
    /\ RegIdleInit
    /\ DispIdleInit

NextSlave ==
    \/ \E slot \in Slots : SlaveCall(slot)
    \/ SlaveSample
    \/ SlaveReturn

SpecSlave == InitSlave /\ [][NextSlave]_vars

(***************************************************************************)
(* SpecSelect: fresh node selections on the snapshots of SpecSlave, the    *)
(* nodes with measured latencies, on clients of every routing              *)
(* configuration.                                                          *)
(***************************************************************************)
\* The latencies updateLatency has stored, in milliseconds.
Latencies == {1, 2, 4}

InitSelect ==
    /\ now = 2 * Minute
    /\ \E st \in [1..MaxListLen -> SlaveStamps],
          lat \in [1..MaxListLen -> Latencies] :
         handles = [i \in 1..MaxListLen |->
                      [NewClusterNode(SlaveAddr(i)) EXCEPT
                         !.generation = 1, !.loading = st[i],
                         !.latency = lat[i]]]
    /\ nodes = [NewClusterNodes(<<SlaveAddr(1)>>) EXCEPT
                  !.allAddrs = [i \in 1..MaxListLen |-> SlaveAddr(i)],
                  !.clusterAddrs = [i \in 1..MaxListLen |-> SlaveAddr(i)],
                  !.allNodes = [a \in {SlaveAddr(i) : i \in 1..MaxListLen}
                                  |-> a[1]],
                  !.generation = 1]
    /\ \E len \in 0..MaxListLen :
         holder = [NoHolder EXCEPT
                     !.state = [generation |-> 1,
                                slots |-> [s \in Slots |->
                                             IF s = 0
                                             THEN [i \in 1..len |-> i]
                                             ELSE <<>>],
                                masters |-> IF len > 0 THEN <<1>> ELSE <<>>,
                                slaves |-> [i \in 1..(len - 1) |-> i + 1]]]
    /\ sg = [c \in GenCallers |-> SetGenIdle]
    /\ sl = SlaveIdle
    /\ rl = ReloadIdle
    /\ RegIdleInit
    /\ \E ro, byLatency, randomly \in BOOLEAN :
         opt = ClusterOptions(0, ro, byLatency, randomly)
    /\ dp = DpIdle

NextSelect ==
    \/ \E slot \in Slots, ro \in BOOLEAN : SelectCall(slot, ro)
    \/ DispatchReturn

SpecSelect == InitSelect /\ [][NextSelect]_vars

(***************************************************************************)
(* SpecReload: LazyReload calls at any time after NewClusterClient, whose  *)
(* own Load has stored a snapshot or an error.                             *)
(***************************************************************************)
InitReload ==
    /\ now = 0
    /\ handles = <<>>
    /\ nodes = NewClusterNodes(<<>>)
    /\ \E err \in {NoErr, ErrLoad} :
         holder = HolderLoad(NoHolder, LoadedState(0), err)
    /\ sg = [c \in GenCallers |-> SetGenIdle]
    /\ sl = SlaveIdle
    /\ rl = ReloadIdle
    /\ RegIdleInit
    /\ DispIdleInit

NextReload ==
    \/ LazyReload
    \/ \E t \in 1..Len(rl.tasks) : ReloadLoadStart(t)
    \/ \E t \in 1..Len(rl.tasks), err \in {NoErr, ErrLoad} : ReloadLoadEnd(t, err)
    \/ \E t \in 1..Len(rl.tasks) : ReloadWake(t)
    \/ \E t \in 1..Len(rl.tasks) : ReloadExit(t)
    \/ Tick

SpecReload == InitReload /\ [][NextReload]_vars

\* SpecReload with the scheduler running every goroutine that can run and
\* time passing: a goroutine past its load wakes up and returns.  A load
\* itself need not return.
SpecReloadLive ==
    /\ SpecReload
    /\ WF_vars(Tick)
    /\ \A t \in 1..MaxReloads :
          /\ WF_vars(t \in 1..Len(rl.tasks) /\ ReloadWake(t))
          /\ WF_vars(t \in 1..Len(rl.tasks) /\ ReloadExit(t))

(***************************************************************************)
(* SpecRegistry: NewClusterClient on one seed address, then lazy reloads,  *)
(* GetOrCreate calls and GC timers in any interleaving.                    *)
(***************************************************************************)
Seeds == <<<<1, 1>>>>

InitRegistry ==
    /\ now = 0
    /\ handles = <<>>
    /\ nodes = NewClusterNodes(Seeds)
    /\ holder = NoHolder
    /\ sg = [c \in GenCallers |-> SetGenIdle]
    /\ sl = SlaveIdle
    /\ rl = ReloadIdle
    /\ RegIdleInit
    /\ DispIdleInit

NextRegistry ==
    \/ InitialLoad
    \/ LazyReloadLoad
    \/ \E p \in 1..RegCallers, a \in HostAddrs : CallerGetOrCreate(p, a)
    \/ \E p \in Procs : GocFast(p)
    \/ \E p \in Procs : GocDo(p)
    \/ \E a \in HostAddrs, err \in {NoErr, ErrTest} : FlightDone(a, err)
    \/ \E p \in Procs : GocLock(p)
    \/ \E p \in Callers : CallerReturn(p)
    \/ \E reply \in SlotsReplies : LoaderSlots(reply)
    \/ LoaderSetGeneration
    \/ LoaderStore
    \/ LoaderExit
    \/ \E g \in timers : GCFire(g)

SpecRegistry == InitRegistry /\ [][NextRegistry]_vars

(***************************************************************************)
(* SpecCreate: GetOrCreate calls alone, racing on addresses the registry   *)
(* does not hold; no load and no GC runs.                                  *)
(***************************************************************************)
InitCreate ==
    /\ now = 0
    /\ handles = <<>>
    /\ nodes = NewClusterNodes(Seeds)
    /\ holder = NoHolder
    /\ sg = [c \in GenCallers |-> SetGenIdle]
    /\ sl = SlaveIdle
    /\ rl = ReloadIdle
    /\ goc = [p \in Procs |-> GocIdle]
    /\ flights = <<>>
    /\ ld = [LoaderIdle EXCEPT !.constructed = TRUE]
    /\ timers = {}
    /\ DispIdleInit

NextCreate ==
    \/ \E p \in Callers, a \in HostAddrs : CallerGetOrCreate(p, a)
    \/ \E p \in Callers : GocDo(p)
    \/ \E a \in HostAddrs, err \in {NoErr, ErrTest} : FlightDone(a, err)
    \/ \E p \in Callers : GocLock(p)
    \/ \E p \in Callers : CallerReturn(p)

SpecCreate == InitCreate /\ [][NextCreate]_vars

(***************************************************************************)
(* SpecClose: GetOrCreate, Random and All calls beside Close calls.        *)
(***************************************************************************)
NextClose ==
    \/ \E p \in Callers, a \in HostAddrs : CallerGetOrCreate(p, a)
    \/ \E p \in Callers : CallerRandom(p)
    \/ \E p \in Callers : GocFast(p)
    \/ \E p \in Callers : GocDo(p)
    \/ \E a \in HostAddrs, err \in {NoErr, ErrTest} : FlightDone(a, err)
    \/ \E p \in Callers : GocLock(p)
    \/ \E p \in Callers : CallerReturn(p)
    \/ CallerAll
    \/ \E firstErr \in {NoErr, ErrNodeClose} : CloseCall(firstErr)
    \/ DispatchReturn

SpecClose == InitCreate /\ [][NextClose]_vars

(***************************************************************************)
(* SpecOrigin: the address newClusterState uses for a reported node, for   *)
(* origins and reported addresses of every kind.                           *)
(***************************************************************************)
AddrStrings == {<<h, p>> : h \in HostName..NumHosts, p \in NoPort..NumPorts}

NextOrigin ==
    \/ \E origin, addr \in AddrStrings : OriginAddrCall(origin, addr)
    \/ DispatchReturn

SpecOrigin == InitCreate /\ [][NextOrigin]_vars

(***************************************************************************)
(* SpecForEach: ForEachMaster, ForEachSlave and ForEachNode calls, one at  *)
(* a time, on a client whose holder has a snapshot of up to MaxListLen     *)
(* nodes, or the error of its load.                                        *)
(***************************************************************************)
InitForEach ==
    /\ now = Minute
    /\ handles = [i \in 1..MaxListLen |->
                    [NewClusterNode(SlaveAddr(i)) EXCEPT !.generation = 1]]
    /\ nodes = [NewClusterNodes(<<SlaveAddr(1)>>) EXCEPT
                  !.allAddrs = [i \in 1..MaxListLen |-> SlaveAddr(i)],
                  !.clusterAddrs = [i \in 1..MaxListLen |-> SlaveAddr(i)],
                  !.allNodes = [a \in {SlaveAddr(i) : i \in 1..MaxListLen}
                                  |-> a[1]],
                  !.generation = 1]
    /\ \/ holder = HolderLoad(NoHolder, NoState, ErrSlots)
       \/ \E len \in 0..MaxListLen :
             holder = HolderLoad(NoHolder,
                         [EmptyState(1) EXCEPT
                            !.slots = [s \in Slots |-> [i \in 1..len |-> i]],
                            !.masters = IF len > 0 THEN <<1>> ELSE <<>>,
                            !.slaves = [i \in 1..(len - 1) |-> i + 1]],
                         NoErr)
    /\ sg = [c \in GenCallers |-> SetGenIdle]
    /\ sl = SlaveIdle
    /\ rl = ReloadIdle
    /\ RegIdleInit
    /\ DispIdleInit

NextForEach ==
    \/ \E which \in {"master", "slave", "node"} : ForEachCall(which)
    \/ ForEachSpawn
    \/ \E i \in 1..MaxListLen, err \in {NoErr} \cup FnErrs : TaskRun(i, err)
    \/ \E i \in 1..MaxListLen : TaskReport(i)
    \/ \E i \in 1..MaxListLen : TaskExit(i)
    \/ ForEachWait
    \/ DispatchReturn

SpecForEach == InitForEach /\ [][NextForEach]_vars

(***************************************************************************)
(* SpecLoading: Loading and MarkAsLoading calls racing on one node while   *)
(* the clock goes on.                                                      *)
(***************************************************************************)
\* The seconds the clock goes on by in one step.
ClockSteps == {Minute \div 2}

InitLoading ==
    /\ now = Minute
    /\ handles = <<NewClusterNode(<<1, 1>>)>>
    /\ nodes = [NewClusterNodes(Seeds) EXCEPT
                  !.allNodes = (<<1, 1>> :> 1), !.clusterAddrs = Seeds]
    /\ holder = NoHolder
    /\ sg = [c \in GenCallers |-> LoadingIdle]
    /\ sl = SlaveIdle
    /\ rl = ReloadIdle
    /\ RegIdleInit
    /\ opt = ClusterOptions(0, TRUE, FALSE, FALSE)
    /\ dp = [kind |-> "marks", last |-> 0]

NextLoading ==
    \/ MarkCall
    \/ \E c \in GenCallers : LoadingLoad(c)
    \/ \E c \in GenCallers : LoadingNow(c)
    \/ \E c \in GenCallers : LoadingStore(c)
    \/ \E c \in GenCallers : LoadingReturn(c)
    \/ \E d \in ClockSteps : ClockAdvance(d)

SpecLoading == InitLoading /\ [][NextLoading]_vars

(***************************************************************************)
(* SpecDispatch: Process calls, one at a time, on a client whose first     *)
(* load has run, against servers that answer anything.  SpecPipeline: the  *)
(* same for Pipeline and TxPipeline calls.                                 *)
(***************************************************************************)

\* The client after NewClusterClient with MaxRedirects configured from ms
\* and ReadOnly from ros: the seed node is in the registry; the first load
\* failed on CLUSTER SLOTS, or stored a snapshot with the seed node as
\* every slot's primary.
InitClient(ms, ros) ==
    /\ now = Minute
    /\ \E loaded \in BOOLEAN :
         /\ handles = <<[NewClusterNode(<<1, 1>>) EXCEPT
                           !.generation = IF loaded THEN 1 ELSE 0]>>
         /\ nodes = [NewClusterNodes(Seeds) EXCEPT
                       !.allNodes = (<<1, 1>> :> 1),
                       !.clusterAddrs = Seeds,
                       !.generation = IF loaded THEN 1 ELSE 0]
         /\ holder = IF loaded
                     THEN HolderLoad(NoHolder,
                                     [EmptyState(1) EXCEPT
                                        !.slots = [s \in Slots |-> <<1>>]],
                                     NoErr)
                     ELSE HolderLoad(NoHolder, NoState, ErrSlots)
    /\ sg = [c \in GenCallers |-> SetGenIdle]
    /\ sl = SlaveIdle
    /\ rl = ReloadIdle
    /\ RegIdleInit
    /\ \E m \in ms, ro \in ros :
         opt = ClusterOptions(m, ro, FALSE, FALSE)
    /\ dp = DpIdle

InitDispatch == InitClient(ConfiguredRedirects, BOOLEAN)

NextDispatch ==
    \/ \E slot \in Slots, ro \in BOOLEAN : ProcessCall(slot, ro)
    \/ \E reply \in ProcessReplies : ProcessAttempt(reply)
    \/ DispatchReturn
    \/ \E ns \in LoadableLists(handles), err \in {NoErr, ErrLoad} :
          LazyReloadTask(ns, err)

SpecDispatch == InitDispatch /\ [][NextDispatch]_vars

InitPipeline ==
    InitClient({m \in ConfiguredRedirects :
                   ClusterOptionsInit(m) <= MaxPipeRedirects}, {FALSE})

NextPipeline ==
    \/ \E slots \in [Cmds -> Slots] : PipelineCall(slots)
    \/ \E n \in 1..MaxHandles, conn \in ConnResults : PipelineConn(n, conn)
    \/ \E reply \in PipeReplies : PipelineRead(reply)
    \/ PipelineNext
    \/ \E slots \in [Cmds -> Slots] : TxPipelineCall(slots)
    \/ \E slot \in Slots : TxSlot(slot)
    \/ \E n \in 1..MaxHandles, conn \in ConnResults \cup {"multierr"} :
          TxConn(n, conn)
    \/ \E reply \in PipeReplies : TxQueued(reply)
    \/ \E reply \in ExecReplies : TxExec(reply)
    \/ TxNext
    \/ TxSlotsDone
    \/ DispatchReturn
    \/ \E ns \in LoadableLists(handles), err \in {NoErr, ErrLoad} :
          LazyReloadTask(ns, err)

SpecPipeline == InitPipeline /\ [][NextPipeline]_vars

(***************************************************************************)
(* SpecTx: TxPipeline calls of NumTxCmds commands on a client whose        *)
(* snapshot gives the slots the same primary or different ones.            *)
(***************************************************************************)
TxCmds == 1..NumTxCmds

\* A client of two nodes with a snapshot loaded, its MaxRedirects
\* configured with one of ms.
InitTwoNodes(ms) ==
    /\ now = Minute
    /\ handles = [i \in 1..2 |-> [NewClusterNode(<<i, 1>>) EXCEPT
                                     !.generation = 1]]
    /\ nodes = [NewClusterNodes(Seeds) EXCEPT
                  !.allNodes = [a \in {<<1, 1>>, <<2, 1>>} |-> a[1]],
                  !.clusterAddrs = <<<<1, 1>>, <<2, 1>>>>,
                  !.generation = 1]
    /\ \E p \in 1..2 :
         holder = HolderLoad(NoHolder,
                             [EmptyState(1) EXCEPT
                                !.slots = [s \in Slots |->
                                             IF s = 0 THEN <<1>> ELSE <<p>>],
                                !.masters = IF p = 1 THEN <<1>>
                                            ELSE <<1, 2>>],
                             NoErr)
    /\ sg = [c \in GenCallers |-> SetGenIdle]
    /\ sl = SlaveIdle
    /\ rl = ReloadIdle
    /\ RegIdleInit
    /\ \E m \in ms : opt = ClusterOptions(m, FALSE, FALSE, FALSE)
    /\ dp = DpIdle

InitTx ==
    InitTwoNodes({m \in ConfiguredRedirects :
                     ClusterOptionsInit(m) <= MaxPipeRedirects})

\* The replies of SpecTx: redirections name the second node.
TxReplies(replies) == {r \in replies : r.addr \in {NoAddr, <<2, 1>>}}

NextTx ==
    \/ \E slots \in [TxCmds -> Slots] : TxPipelineCall(slots)
    \/ \E slot \in Slots : TxSlot(slot)
    \/ \E n \in 1..MaxHandles, conn \in ConnResults \cup {"multierr"} :
          TxConn(n, conn)
    \/ \E reply \in TxReplies(PipeReplies) : TxQueued(reply)
    \/ \E reply \in TxReplies(ExecReplies) : TxExec(reply)
    \/ TxNext
    \/ TxSlotsDone
    \/ DispatchReturn
    \/ \E ns \in LoadableLists(handles), err \in {NoErr, ErrLoad} :
          LazyReloadTask(ns, err)

SpecTx == InitTx /\ [][NextTx]_vars

(***************************************************************************)
(* SpecBestEffort: Pipeline calls of NumTxCmds commands on the client of   *)
(* SpecTx with MaxRedirects high enough for a bucket filled in the second  *)
(* attempt to be written in a third.                                       *)
(***************************************************************************)
InitBestEffort == InitTwoNodes({BestEffortRedirects})

NextBestEffort ==
    \/ \E slots \in [TxCmds -> Slots] : PipelineCall(slots)
    \/ \E n \in 1..MaxHandles, conn \in ConnResults : PipelineConn(n, conn)
    \/ \E reply \in TxReplies(PipeReplies) : PipelineRead(reply)
    \/ PipelineNext
    \/ DispatchReturn
    \/ \E ns \in LoadableLists(handles), err \in {NoErr, ErrLoad} :
          LazyReloadTask(ns, err)

SpecBestEffort == InitBestEffort /\ [][NextBestEffort]_vars

(***************************************************************************)
(* Properties.                                                             *)
(***************************************************************************)

\* C7: a node's generation never decreases, and the step that ends a
\* SetGeneration(g) call leaves the generation at the maximum of g and the
\* value the generation had just before that step.
C7_GenerationMonotonic ==
    [][/\ handles'[1].generation >= handles[1].generation
       /\ \A c \in GenCallers :
            (sg[c].pc # "done" /\ sg'[c].pc = "done")
               => handles'[1].generation
                     = Max(handles[1].generation, sg[c].gen)]_vars

\* Two calls have raced: both loaded, the one with the lower generation
\* then found the node already above it, and the node holds the higher one.
C7_Witness ==
    \E c, d \in GenCallers :
       /\ c # d
       /\ sg[c].pc = "done" /\ sg[d].pc = "done"
       /\ sg[c].gen < sg[d].gen
       /\ sg[c].v = sg[d].gen
       /\ handles[1].generation = sg[d].gen

\* The replicas of the list a slotSlaveNode call read that are not loading.
SlaveFreeReplicas ==
    {sl.nodes[k] : k \in {j \in 2..Len(sl.nodes) :
                             ~Loading(handles[sl.nodes[j]], now)}}

\* C9 as stated: with a list of size >= 2 and a replica that is not
\* loading, slotSlaveNode returns a replica that is not loading; with a
\* list of size 2 whose replica is loading it returns the primary.
C9_ReturnsNonLoadingReplica ==
    (sl.pc = "ret" /\ Len(sl.nodes) >= 2) =>
       /\ SlaveFreeReplicas # {} => sl.slave \in SlaveFreeReplicas
       /\ (Len(sl.nodes) = 2 /\ SlaveFreeReplicas = {}) => sl.slave = sl.nodes[1]

\* C9 amended: size 2 returns the replica unless it is loading and then
\* the primary; size >= 3 returns a replica, never the primary, and a
\* loading one only after all Probes draws hit loading replicas.
C9_ReturnsReplicaLoadingOnlyAfterProbes ==
    (sl.pc = "ret" /\ Len(sl.nodes) >= 2) =>
       /\ sl.err = NoErr
       /\ Len(sl.nodes) = 2 =>
            sl.slave = IF sl.nodes[2] \in SlaveFreeReplicas
                       THEN sl.nodes[2] ELSE sl.nodes[1]
       /\ Len(sl.nodes) >= 3 =>
            /\ \E k \in 2..Len(sl.nodes) : sl.slave = sl.nodes[k]
            /\ sl.slave \notin SlaveFreeReplicas => sl.i = Probes
            /\ sl.slave \in SlaveFreeReplicas => sl.i \in 1..Probes

\* A call on a list of three or more returned a loading replica although
\* another replica was not loading.
C9_Witness ==
    /\ sl.pc = "ret"
    /\ Len(sl.nodes) >= 3
    /\ SlaveFreeReplicas # {}
    /\ sl.slave \notin SlaveFreeReplicas
    /\ Loading(handles[sl.slave], now)

\* C4 as stated: whether loads succeed or fail, no two loads start within
\* one second of each other, so a one-second window of LazyReload calls
\* holds one load.
C4_OneLoadPerSecond ==
    \A i, j \in 1..Len(rl.loads) :
       i < j => rl.loads[j].start - rl.loads[i].start >= Second

\* C4 amended: a load starts only after every earlier load has ended, and
\* at least a second after the end of every earlier load that succeeded.
C4_OneLoadInFlightAndPerSecondAfterSuccess ==
    \A i, j \in 1..Len(rl.loads) :
       i < j =>
          /\ rl.loads[i].end # -1
          /\ rl.loads[j].start >= rl.loads[i].end
          /\ rl.loads[i].ok => rl.loads[j].start - rl.loads[i].end >= Second

\* A load succeeded, a LazyReload call found the flag set and did nothing,
\* and the next load started a second or more after the first ended.
C4_Witness ==
    /\ Len(rl.loads) >= 2
    /\ rl.loads[1].ok
    /\ rl.coalesced >= 1
    /\ rl.loads[2].start - rl.loads[1].end >= Second

\* The handles constructed for an address.
HandlesFor(a) == {i \in 1..Len(handles) : handles[i].addr = a}

\* C5 as stated: GetOrCreate calls racing on an address the registry does
\* not hold construct one node handle (and so send one Test) for it.
C5_OneConstructionPerAddress ==
    \A a \in HostAddrs : Cardinality(HandlesFor(a)) <= 1

\* C5 amended: every call that has returned was given the handle the table
\* holds for its address, and every other handle constructed for the
\* address is still with its flight, is about to be handled under the
\* write lock, or has been closed by GetOrCreate.
C5_OneHandleInsertedExtraOnesClosed ==
    /\ \A p \in Callers :
          goc[p].pc = "ret" =>
             /\ goc[p].node # NoNode
             /\ goc[p].node = Lookup(nodes.allNodes, goc[p].addr)
    /\ \A a \in HostAddrs : \A i \in HandlesFor(a) :
          \/ i = Lookup(nodes.allNodes, a)
          \/ i = Lookup(flights, a)
          \/ \E p \in Callers : goc[p].pc = "lock" /\ goc[p].v = i
          \/ "GetOrCreate" \in handles[i].closedBy

\* Two callers raced on one address, two handles were constructed, and
\* both callers returned the one in the table; the other is closed.
C5_Witness ==
    \E a \in HostAddrs : \E p, q \in Callers :
       /\ p # q
       /\ Cardinality(HandlesFor(a)) = 2
       /\ goc[p].pc = "ret" /\ goc[q].pc = "ret"
       /\ goc[p].addr = a /\ goc[q].addr = a
       /\ goc[p].node = goc[q].node
       /\ \E i \in HandlesFor(a) :
             i # goc[p].node /\ "GetOrCreate" \in handles[i].closedBy

\* C6 as stated: no node of the snapshot the holder publishes has been
\* closed by the registry's GC.
C6_PublishedNodesNotClosedByGC ==
    holder.state # NoState =>
       \A s \in Slots : \A k \in 1..Len(holder.state.slots[s]) :
          "GC" \notin handles[holder.state.slots[s][k]].closedBy

\* C8: a snapshot the holder stores has a generation above that of the
\* snapshot it replaces, the first one above zero.
C8_StoredGenerationIncreases ==
    [][holder'.state # holder.state =>
          /\ holder'.state # NoState
          /\ holder'.state.generation > holder.state.generation]_vars

\* Two snapshots have been stored and a construction that failed part-way
\* took a generation: the published one has generation 3.
C8_Witness ==
    /\ ld.stored = 2
    /\ holder.state.generation = 3

\* What C10 says Get returns for holder h, the last failed load having
\* returned lastFail.
GetAsClaimed(h, lastFail) ==
    IF h.state # NoState THEN [state |-> h.state, err |-> NoErr]
    ELSE IF lastFail # NoErr THEN [state |-> NoState, err |-> lastFail]
    ELSE [state |-> NoState, err |-> ErrNoState]

\* C10: once a snapshot is stored Get returns a snapshot in every later
\* state; a failed load stores its error and leaves the snapshot; before
\* any snapshot is stored Get returns the last load's error, or the "no
\* state" error when no load has failed.
C10_GetReturnsSnapshotOnceStored ==
    [][/\ HolderGet(holder) = GetAsClaimed(holder, ld.lastFail)
       /\ HolderGet(holder') = GetAsClaimed(holder', ld'.lastFail)
       /\ holder.state # NoState =>
             /\ HolderGet(holder').err = NoErr
             /\ HolderGet(holder').state # NoState
       /\ (ld.pc = "store" /\ ld'.pc # "store" /\ ld.err # NoErr) =>
             /\ holder'.lastErr = ld.err
             /\ holder'.state = holder.state]_vars

\* A snapshot is published, a later load failed after drawing a newer
\* generation and left its error, and Get still returns the snapshot.
C10_Witness ==
    /\ holder.state # NoState
    /\ holder.lastErr # NoErr
    /\ ld.pc = "idle"
    /\ nodes.generation > holder.state.generation
    /\ HolderGet(holder).state = holder.state

\* The number of redirects a configured MaxRedirects stands for.
Budget(m) == IF m = -1 THEN 0 ELSE IF m = 0 THEN 8 ELSE m

\* C1 as stated: a Process call, a Pipeline call and each slot's loop of a
\* TxPipeline call make at most max_redirects + 1 attempts, each command
\* being written in at most that many round trips, max_redirects being
\* the configured value with -1 read as 0 and 0 as 8.
C1_RoundTripsWithinBudget ==
    CASE dp.kind = "process" ->
           dp.trips <= Budget(opt.configured) + 1
      [] dp.kind \in {"pipeline", "tx"} ->
           /\ dp.attempt <= Budget(opt.configured)
           /\ \A c \in DOMAIN dp.trips :
                 dp.trips[c] <= Budget(opt.configured) + 1
      [] OTHER -> TRUE

\* A Process call is in its loop and this step makes a round trip.
ProcessRoundTrip ==
    /\ dp.kind = "process" /\ dp.pc = "loop"
    /\ dp'.kind = "process" /\ dp'.trips = dp.trips + 1

\* The attempt after a redirect: the command goes to the node the redirect
\* named, after ASKING exactly when the redirect was an ASK, and a reply
\* without error ends the call with no error.
AttemptAfterRedirect(kind) ==
    (ProcessRoundTrip /\ dp.via = kind) =>
       /\ dp'.sent = [node |-> dp.node, asking |-> (kind = "ASK"),
                      via |-> kind]
       /\ dp'.err = NoErr => dp'.pc = "done"
       /\ dp'.ask => dp'.err = "ASK"

\* C2 as stated: in a Process call, a MOVED reply to address a with
\* attempts left requests a lazy reload and the next attempt sends the
\* command alone to the registry's node for a; if that succeeds the call
\* returns its reply.
C2_MovedRetriesOnTarget ==
    [][/\ \A a \in HostAddrs :
            (/\ ProcessAttempt(Reply("MOVED", a))
             /\ ProcessRoundTrip
             /\ dp.attempt < opt.MaxRedirects) =>
               /\ holder'.reloading = 1
               /\ dp'.pc = "loop"
               /\ ~dp'.ask
               /\ dp'.via = "MOVED"
               /\ dp'.node # NoNode
               /\ dp'.node = Lookup(nodes'.allNodes, a)
       /\ AttemptAfterRedirect("MOVED")]_vars

\* C2 amended: the MOVED reply requests the lazy reload; the next attempt
\* goes to the registry's node for a when GetOrCreate(a) returned no
\* error, the node being in the table already or passing its Test; when
\* the node is new and fails its Test the call ends with the MOVED error
\* in spite of the attempts left.
C2_MovedRetriesOnTargetUnlessGetOrCreateFails ==
    [][/\ \A a \in HostAddrs :
            (/\ ProcessAttempt(Reply("MOVED", a))
             /\ ProcessRoundTrip
             /\ dp.attempt < opt.MaxRedirects) =>
               /\ holder'.reloading = 1
               /\ ~dp'.ask
               /\ dp'.via = "MOVED"
               /\ dp'.node # NoNode
               /\ dp'.node = Lookup(nodes'.allNodes, a)
               /\ IF \/ Lookup(nodes.allNodes, a) # NoNode
                     \/ SeqContains(nodes'.clusterAddrs, a)
                  THEN dp'.pc = "loop"
                  ELSE dp'.pc = "done" /\ dp'.err = "MOVED"
       /\ AttemptAfterRedirect("MOVED")]_vars

\* A Process call has returned the reply of an attempt made, without
\* ASKING, on the node a MOVED reply named; the node is not in the slot's
\* list of the snapshot and the reload has been requested.
C2_Witness ==
    /\ dp.kind = "process" /\ dp.pc = "done" /\ dp.err = NoErr
    /\ dp.sent.via = "MOVED" /\ ~dp.sent.asking
    /\ dp.sent.node = Lookup(nodes.allNodes, <<2, 1>>)
    /\ ~SeqContains(SlotNodes(holder.state, dp.slot), dp.sent.node)
    /\ holder.reloading = 1

\* C3 as stated: in a Process call, an ASK reply to address a makes the next
\* attempt send ASKING and the command to the node for a, for that one
\* attempt only, and schedules no reload.
C3_AskSchedulesNoReload ==
    [][/\ \A a \in HostAddrs :
            (/\ ProcessAttempt(Reply("ASK", a))
             /\ ProcessRoundTrip) =>
               /\ holder' = holder
               /\ dp'.pc = "loop" =>
                     /\ dp'.ask
                     /\ dp'.node = Lookup(nodes'.allNodes, a)
       /\ AttemptAfterRedirect("ASK")]_vars

\* The node a selection returned is a replica of the slot's list.
SelectedReplica ==
    \E k \in 2..Len(dp.list) : dp.node = dp.list[k] /\ dp.node # dp.list[1]

C20_AllLoadingFallsBackToRandom ==
    (/\ dp.kind = "select" /\ dp.readOnly
     /\ opt.RouteByLatency
     /\ Len(dp.list) > 0
     /\ \A k \in 1..Len(dp.list) : dp.list[k] \in dp.loading) =>
       /\ ~(dp.node = NoNode /\ dp.err = NoErr)
       /\ dp.err = NoErr => dp.node \in {nodes.allNodes[a] :
                                            a \in DOMAIN nodes.allNodes}

\* The nodes of the call's slot in the current snapshot, other than n, that
\* are not marked as loading.
OtherFreeNodes(n) ==
    LET ns == SlotNodes(HolderGet(holder).state, dp.slot) IN
    {ns[k] : k \in {j \in 1..Len(ns) :
                       ns[j] # n /\ ~Loading(handles[ns[j]], now)}}

\* C19 as stated: on a read-only client a LOADING reply marks the node as
\* loading and the next attempt selects a node afresh, no node being
\* carried over; the retry of a read-only command goes to another node
\* when the slot's list has one that is not loading.
C19_LoadingRetrySelectsAfresh ==
    [][/\ (/\ ProcessAttempt(Reply("LOADING", NoAddr))
           /\ ProcessRoundTrip
           /\ opt.ReadOnly) =>
              /\ handles'[dp'.sent.node].loading = now
              /\ dp'.pc = "loop" => dp'.node = NoNode
       /\ (/\ ProcessRoundTrip
           /\ opt.ReadOnly /\ dp.readOnly
           /\ dp.err = "LOADING"
           /\ OtherFreeNodes(dp.sent.node) # {}) =>
              dp'.sent.node # dp.sent.node]_vars

\* The commands of a bucket, ASKING aside, are of one slot.
OneSlot(cmds) ==
    \A i, j \in 1..Len(cmds) :
       (cmds[i] # Asking /\ cmds[j] # Asking) =>
          dp.slots[cmds[i]] = dp.slots[cmds[j]]

\* C12: the transactional pipeline runs one retry loop per slot group: the
\* buckets it writes as MULTI .. EXEC blocks never hold commands of two
\* different slots, and the loop of a slot starts at attempt 0 with one
\* bucket, all commands of the slot in submission order, on the slot's
\* primary in the snapshot fetched when the call started (a node of the
\* registry if the snapshot has no node for the slot).
C12_OneSlotPerBlockFirstOnPrimary ==
    /\ [](dp.kind = "tx" =>
            \A n \in DOMAIN dp.cmdsMap : OneSlot(dp.cmdsMap[n]))
    /\ [][(dp.kind = "tx" /\ dp.pc = "slots" /\ dp'.pc = "groups") =>
            LET list == SlotNodes(dp.state, dp'.slot) IN
            /\ dp'.slot \in dp.todo
            /\ dp'.attempt = 0
            /\ \E n \in 1..Len(handles') :
                  /\ Len(list) > 0 => n = list[1]
                  /\ dp'.pending = {n}
                  /\ dp'.cmdsMap = (n :> SlotCmds(dp.slots, dp'.slot))
            /\ dp'.failed = <<>>]_vars

\* The second slot group of a pipeline with commands of two slots is in
\* its retry, the block written, after the snapshot has been replaced.
C12_Witness ==
    /\ dp.kind = "tx" /\ dp.slots[1] # dp.slots[2]
    /\ Cardinality(dp.todo) = 1
    /\ dp.attempt = 1 /\ dp.pc = "exec"
    /\ HolderGet(holder).state # dp.state
    /\ Len(SlotNodes(dp.state, dp.slot)) > 0

C14_CloseIdempotentAndFinal ==
    [][/\ (~nodes.closed /\ dp.kind = "idle" /\ dp'.kind = "close") =>
            /\ nodes'.closed /\ nodes'.allNodes = <<>>
            /\ \A i \in 1..Len(handles) :
                  handles'[i].closedBy =
                     IF i \in All(nodes).nodes
                     THEN handles[i].closedBy \cup {"Close"}
                     ELSE handles[i].closedBy
       /\ nodes.closed =>
            /\ nodes'.closed /\ nodes'.allNodes = <<>>
            /\ \A i \in 1..Len(handles) :
                  handles'[i].closedBy = handles[i].closedBy
            /\ (dp.kind = "idle" /\ dp'.kind = "close") => dp'.err = NoErr
            /\ (dp.kind = "idle" /\ dp'.kind = "all") =>
                  dp'.err = ErrClosed /\ dp'.nodes = {}
            /\ \A p \in Callers :
                  (goc[p].pc # "ret" /\ goc'[p].pc = "ret") =>
                     goc'[p].err = ErrClosed /\ goc'[p].node = NoNode]_vars

\* Close found two handles in the table and a construction in flight; a
\* second Close has returned, and the caller of the flight has returned
\* pool.ErrClosed, its handle neither in the table nor closed.
C14_Witness ==
    /\ nodes.closed /\ dp.kind = "close"
    /\ Cardinality({i \in 1..Len(handles) :
                       "Close" \in handles[i].closedBy}) = 2
    /\ \E p \in Callers :
          /\ goc[p].pc = "ret" /\ goc[p].err = ErrClosed
          /\ goc[p].v # NoNode /\ handles[goc[p].v].closedBy = {}

\* C17 as stated: GetOrCreate closes only a newcomer that lost, a handle
\* other than the one in the table: the handle the table holds for an
\* address has never been closed by GetOrCreate.
C17_TableHandleNotClosedByGetOrCreate ==
    \A a \in DOMAIN nodes.allNodes :
       "GetOrCreate" \notin handles[nodes.allNodes[a]].closedBy

\* C18: GC(g) takes out of the table exactly the handles of a generation
\* below g and closes exactly these; their addresses are no longer in
\* clusterAddrs, the other addresses of clusterAddrs stay, and allAddrs is
\* left as it was; the handles of generation g or above stay in the table
\* and GC does not close them.
C18_GCCollectsExactlyOlderGenerations ==
    [][\A g \in timers :
          (timers' = timers \ {g}) =>
             LET old == {a \in DOMAIN nodes.allNodes :
                            handles[nodes.allNodes[a]].generation < g}
             IN  /\ DOMAIN nodes'.allNodes = DOMAIN nodes.allNodes \ old
                 /\ \A a \in DOMAIN nodes'.allNodes :
                       nodes'.allNodes[a] = nodes.allNodes[a]
                 /\ Len(handles') = Len(handles)
                 /\ \A i \in 1..Len(handles) :
                       handles'[i].closedBy =
                          IF \E a \in old : nodes.allNodes[a] = i
                          THEN handles[i].closedBy \cup {"GC"}
                          ELSE handles[i].closedBy
                 /\ \A a \in HostAddrs :
                       SeqContains(nodes'.clusterAddrs, a) =
                          (a \notin old /\ SeqContains(nodes.clusterAddrs, a))
                 /\ nodes'.allAddrs = nodes.allAddrs]_vars

\* GC has collected and closed the node of one address, which allAddrs
\* still lists and clusterAddrs no longer does, and has left another node
\* in the table, open and among clusterAddrs.
C18_Witness ==
    \E i, j \in 1..Len(handles) :
       /\ "GC" \in handles[i].closedBy
       /\ handles[i].addr \notin DOMAIN nodes.allNodes
       /\ SeqContains(nodes.allAddrs, handles[i].addr)
       /\ ~SeqContains(nodes.clusterAddrs, handles[i].addr)
       /\ Lookup(nodes.allNodes, handles[j].addr) = j
       /\ handles[j].closedBy = {}
       /\ SeqContains(nodes.clusterAddrs, handles[j].addr)

\* C16: newClusterState uses the origin's address for a reported node if
\* and only if the origin is not a loopback address and the reported
\* address parses as a loopback IP with the port of the origin; in every
\* other case it uses the reported address as it is.
C16_OriginReplacesLoopbackOfSamePort ==
    dp.kind = "addr" =>
       LET originLoopback == dp.origin[2] # NoPort /\ dp.origin[1] = 0
           nodeLoopbackIP == dp.addr[2] # NoPort /\ dp.addr[1] = 0
           samePort == dp.origin[2] # NoPort /\ dp.addr[2] = dp.origin[2]
       IN  dp.used = IF ~originLoopback /\ nodeLoopbackIP /\ samePort
                     THEN dp.origin ELSE dp.addr

\* A node reported with a loopback IP and the port of the origin, which is
\* not a loopback address, is given the origin's address.
C16_Witness ==
    /\ dp.kind = "addr"
    /\ dp.origin = <<1, 1>> /\ dp.addr = <<0, 1>>
    /\ dp.used = <<1, 1>>

\* What C15 says of a call that has returned: every goroutine spawned has
\* ended, the error is nil if and only if every fn returned nil, and an
\* error returned is the error of one of the goroutines.
ForEachAsClaimed ==
    /\ \A i \in 1..Len(dp.tasks) : dp.tasks[i].pc = "done"
    /\ (dp.err = NoErr) <=> (\A i \in 1..Len(dp.tasks) :
                                dp.tasks[i].err = NoErr)
    /\ dp.err # NoErr => \E i \in 1..Len(dp.tasks) :
                             dp.tasks[i].err = dp.err

\* A goroutine about to report its error can do so at once.
ForEachReportNeverBlocks ==
    dp.kind = "foreach" =>
       \A i \in 1..Len(dp.tasks) :
          dp.tasks[i].pc = "report" => ENABLED TaskReport(i)

\* C15 as stated: ForEachMaster, ForEachSlave and ForEachNode return after
\* every goroutine they spawned has ended, nil if and only if every fn
\* returned nil and otherwise the error of one of the goroutines, and a
\* goroutine whose fn failed never blocks on reporting.
C15_ReturnsAfterAllTasksFirstError ==
    /\ (dp.kind = "foreach" /\ dp.pc = "done") => ForEachAsClaimed
    /\ ForEachReportNeverBlocks

\* C15 amended: a call whose Get failed returns Get's error and spawns
\* nothing; a call that got the snapshot spawns one goroutine for each
\* node of the lists it ranges over and returns as C15 says.
C15_ReturnsGetErrorOrAfterAllTasksFirstError ==
    /\ (dp.kind = "foreach" /\ dp.pc = "done") =>
          IF dp.got
          THEN /\ ForEachAsClaimed
               /\ [i \in 1..Len(dp.tasks) |-> dp.tasks[i].node] = dp.nodes
          ELSE /\ dp.err = HolderGet(holder).err /\ dp.err # NoErr
               /\ dp.tasks = <<>>
    /\ ForEachReportNeverBlocks

\* ForEachNode has returned the error of the second goroutine it spawned;
\* the third one failed with another error and found the channel full.
C15_Witness ==
    /\ dp.kind = "foreach" /\ dp.pc = "done" /\ dp.which = "node"
    /\ Len(dp.tasks) = 3
    /\ dp.tasks[1].err = NoErr
    /\ dp.tasks[2].err # NoErr /\ dp.tasks[3].err # NoErr
    /\ dp.tasks[2].err # dp.tasks[3].err
    /\ dp.err = dp.tasks[2].err

\* C29 as stated: slotRandomNode is given nonempty lists only: a read-only
\* command on a read-only client with RouteRandomly, whose slot has no
\* node in the snapshot, is given a node of the registry or an error, and
\* no sample is drawn from the empty list.
C29_RandomNodeNeverSamplesEmptyList ==
    (/\ dp.kind = "select" /\ dp.readOnly
     /\ opt.ReadOnly /\ opt.RouteRandomly /\ ~opt.RouteByLatency
     /\ Len(dp.list) = 0) =>
       /\ dp.err # Panic
       /\ dp.err = NoErr => dp.node \in {nodes.allNodes[a] :
                                            a \in DOMAIN nodes.allNodes}

\* C28 as stated, its first part: a Loading call that began after the last
\* MarkAsLoading had completed, at time t, and has returned before t + 60 s
\* has returned true, whatever other Loading calls run beside it.
C28_LoadingTrueWithinMinuteOfMark ==
    \A c \in GenCallers :
       (/\ sg[c].pc = "ret"
        /\ dp.last # 0 /\ sg[c].last = dp.last
        /\ now < dp.last + Minute) => sg[c].ret

\* The goroutines LazyReload has spawned that have not yet run the
\* deferred store of zero.
ReloadAlive == {t \in 1..Len(rl.tasks) : rl.tasks[t].pc # "gone"}

\* C21: at most one load started by LazyReload is in progress; the
\* reloading flag is 1 exactly while a goroutine spawned after a successful
\* compare-and-swap has not ended, and there is at most one; and a
\* goroutine whose load has returned (within the clock's horizon if it
\* sleeps) ends with the flag back at 0.
C21_ReloadingFlagAroundOneLoad ==
    /\ [](/\ Cardinality({t \in 1..Len(rl.tasks) :
                             rl.tasks[t].pc = "load"}) <= 1
          /\ Cardinality(ReloadAlive) <= 1
          /\ (holder.reloading = 1) <=> (ReloadAlive # {})
          /\ holder.reloading \in {0, 1})
    /\ \A t \in 1..MaxReloads :
          (/\ t \in 1..Len(rl.tasks)
           /\ \/ rl.tasks[t].pc = "exit"
              \/ rl.tasks[t].pc = "sleep" /\ rl.tasks[t].wake <= MaxClock)
             ~> (holder.reloading = 0)

\* A load has succeeded, its goroutine sleeps with the flag at 1, and a
\* LazyReload call in the meantime has done nothing.
C21_Witness ==
    /\ holder.reloading = 1
    /\ \E t \in 1..Len(rl.tasks) : rl.tasks[t].pc = "sleep"
    /\ rl.coalesced >= 1
    /\ Len(rl.loads) = 2

C26_RegistryListsAndTableAgree ==
    /\ [](~nodes.closed =>
            /\ \A i, j \in 1..Len(nodes.clusterAddrs) :
                  i # j => nodes.clusterAddrs[i] # nodes.clusterAddrs[j]
            /\ \A i \in 1..Len(nodes.clusterAddrs) :
                  nodes.clusterAddrs[i] \in DOMAIN nodes.allNodes
            /\ \A a \in DOMAIN nodes.allNodes :
                  /\ nodes.allNodes[a] \in 1..Len(handles)
                  /\ handles[nodes.allNodes[a]].addr = a
                  /\ SeqContains(nodes.allAddrs, a))
    /\ [][~nodes'.closed =>
            /\ \A i \in 1..Len(nodes'.clusterAddrs) :
                  LET a == nodes'.clusterAddrs[i] IN
                  IF SeqContains(nodes.clusterAddrs, a)
                  THEN nodes'.allNodes[a] = nodes.allNodes[a]
                  ELSE \E p \in Procs :
                          /\ goc[p].pc = "lock" /\ goc[p].addr = a
                          /\ goc[p].err = NoErr
                          /\ nodes'.allNodes[a] = goc[p].v
            /\ \A i \in 1..Len(nodes.allAddrs) :
                  SeqContains(nodes'.allAddrs, nodes.allAddrs[i])]_vars

\* An address GC had removed is back in clusterAddrs under a new handle,
\* beside another address.
C26_Witness ==
    /\ ~nodes.closed /\ Len(nodes.clusterAddrs) = 2
    /\ \E i \in 1..Len(handles) :
          /\ "GC" \in handles[i].closedBy
          /\ SeqContains(nodes.clusterAddrs, handles[i].addr)
          /\ nodes.allNodes[handles[i].addr] # i

\* How often c occurs in the list cs.
Occurrences(cs, c) == Cardinality({i \in 1..Len(cs) : cs[i] = c})

\* C25: when the reply of EXEC is a MOVED or ASK error, the error is set on
\* every command of the group and failedCmds holds, for the node of the
\* redirect's address, every command of the group exactly once.
C25_ExecRedirectRebucketsEachCommandOnce ==
    [][(/\ dp.kind = "tx" /\ dp.pc = "exec" /\ dp'.pc = "groups"
        /\ \E i \in 1..Len(dp.cmdsMap[dp.cur]) :
              /\ dp.cmdsMap[dp.cur][i] # Asking
              /\ dp'.errs[dp.cmdsMap[dp.cur][i]] \in {"MOVED", "ASK"})
         => LET cmds == dp.cmdsMap[dp.cur] IN
            /\ \A i, j \in 1..Len(cmds) :
                  (cmds[i] # Asking /\ cmds[j] # Asking)
                     => dp'.errs[cmds[i]] = dp'.errs[cmds[j]]
            /\ \E a \in DOMAIN nodes'.allNodes :
                  LET n == nodes'.allNodes[a] IN
                  /\ n \in DOMAIN dp'.failed
                  /\ \A i \in 1..Len(cmds) :
                        cmds[i] # Asking
                           => Occurrences(dp'.failed[n], cmds[i]) = 1]_vars

\* C30: in a pipeline or a transactional pipeline the connection borrowed
\* for a bucket is held exactly while the bucket is written and read; when
\* the processing is over it has been handed back once: to Put if the
\* processing returned nil or an error reply of the server, to Remove if it
\* returned any other error, and never to both; a write that failed and a
\* transaction that failed left their error on the bucket's commands.
C30_BorrowedConnHandedBackOnce ==
    dp.kind \in {"pipeline", "tx"} =>
       /\ dp.cn.held <=> dp.pc \in {"read", "queued", "exec"}
       /\ dp.cn.held => dp.cn.node = dp.cur /\ dp.cn.puts + dp.cn.removes = 0
       /\ (~dp.cn.held /\ dp.cn.node # NoNode) =>
             /\ dp.cn.puts + dp.cn.removes = 1
             /\ dp.cn.puts = 1 <=> (dp.cn.err = NoErr \/ IsRedisError(dp.cn.err))
             /\ (dp.cn.err # NoErr /\ (dp.kind = "tx" \/ dp.cn.err = ErrWrite))
                   => \A i \in 1..Len(dp.cmdsMap[dp.cn.node]) :
                         LET c == dp.cmdsMap[dp.cn.node][i] IN
                         c # Asking => dp.errs[c] = dp.cn.err
       /\ (dp.pc \in {"done", "slots"}) => dp.cn = NoConn

\* A connection was removed after an I/O error while the replies were
\* read, in a later attempt.
C30_Witness ==
    /\ dp.kind \in {"pipeline", "tx"} /\ dp.attempt > 0
    /\ ~dp.cn.held /\ dp.cn.removes = 1 /\ dp.cn.err = "neterr"

\* The command whose reply a pipeline is about to read.
ReadCmd == dp.cmdsMap[dp.cur][dp.ri]

\* C22, the reply of a command: after a MOVED reply the command is the
\* last of the bucket failedCmds holds for the node of the redirect's
\* address and the reloading flag is up; after an ASK reply ASKING and the
\* command are the last two of that bucket and no reload is requested.
C22_RedirectedReplyIsBucketed ==
    [][(/\ dp.kind = "pipeline" /\ dp.pc = "read" /\ dp' # dp
        /\ ReadCmd # Asking
        /\ dp'.errs[ReadCmd] \in {"MOVED", "ASK"})
         => \E a \in DOMAIN nodes'.allNodes :
               LET n == nodes'.allNodes[a] IN
               /\ n \in DOMAIN dp'.failed
               /\ IF dp'.errs[ReadCmd] = "MOVED"
                  THEN /\ dp'.failed[n] = Bucket(dp.failed, n) \o <<ReadCmd>>
                       /\ holder'.reloading = 1
                  ELSE /\ dp'.failed[n]
                            = Bucket(dp.failed, n) \o <<Asking, ReadCmd>>
                       /\ holder' = holder]_vars

\* C22, the buckets of later attempts: in the bucket that has been written
\* a command not yet read whose last reply was an ASK redirect comes
\* directly after an ASKING.
C22_AskingStaysBeforeItsCommand ==
    (dp.kind = "pipeline" /\ dp.pc = "read" /\ dp.attempt > 0) =>
       \A i \in dp.ri..Len(dp.cmdsMap[dp.cur]) :
          LET c == dp.cmdsMap[dp.cur][i] IN
          (c # Asking /\ dp.errs[c] = "ASK")
             => i > 1 /\ dp.cmdsMap[dp.cur][i - 1] = Asking

\* C22: a MOVED reply puts the command into the bucket of the node it
\* names and requests a reload, an ASK reply puts ASKING and the command
\* there and requests none, and in the buckets written in later attempts
\* every command redirected by ASK still follows its ASKING.
C22_RedirectsBucketedAskingKept ==
    /\ C22_RedirectedReplyIsBucketed
    /\ []C22_AskingStaysBeforeItsCommand

\* C23: when the reading of a bucket's replies ends on an I/O error, the
\* command whose reply failed and every command of the bucket after it
\* carry that error.
C23_UnreadCommandsMarked ==
    [][(/\ dp.kind = "pipeline" /\ dp.pc = "read" /\ dp'.pc = "groups"
        /\ dp'.cn.err # NoErr)
         => \A i \in dp.ri..Len(dp.cmdsMap[dp.cur]) :
               LET c == dp.cmdsMap[dp.cur][i] IN
               c # Asking => dp'.errs[c] = dp'.cn.err]_vars

\* C24: at the end of every attempt a command whose last reply was a
\* redirect is in a bucket of failedCmds; every other command is finished.
C24_NoCommandLostBetweenAttempts ==
    (dp.kind = "pipeline" /\ dp.pc = "groups" /\ dp.pending = {}) =>
       \A c \in DOMAIN dp.errs :
          dp.errs[c] \in {"MOVED", "ASK"}
             => \E n \in DOMAIN dp.failed : SeqContains(dp.failed[n], c)

=============================================================================
